---- MODULE Spec2Model ----
(***************************************************************************)
(* Session/cookie lifecycle and request fallback of the three retail MCP   *)
(* servers (E-Fresh, Skroutz, Sklavenitis).                                *)
(*                                                                         *)
(* One behaviour follows one target.  `target' selects the Site Client:    *)
(*   "efresh"           EFreshClient        (efresh_client.py)             *)
(*   "skroutz"          SkroutzClientCffi   (skroutz_client_cffi.py)       *)
(*   "sklavenitis"      SklavenitisClient   (sklavenitis_client.py)        *)
(*   "skroutz_auth"     the AuthManager of skroutz_server/auth.py on its   *)
(*                      own, driven directly by its callers                *)
(*   "sklavenitis_auth" the AuthManager of sklavenitis_server/auth.py on   *)
(*                      its own                                            *)
(* The three clients are written against the AuthManager interface of      *)
(* skroutz_server/auth.py (session record, save_session(cookies,           *)
(* user_email), _save_session(), is_authenticated()), which is the one     *)
(* modelled for them.  The retailer is the environment: every HTTP         *)
(* request's outcome is chosen nondeterministically.                       *)
(***************************************************************************)
EXTENDS Integers, Sequences, FiniteSets, TLC

\* ------------------------------------------------------------------ bounds
MaxQty == 2
MaxCart == 2
\* the most full pages of orders the retailer serves in a row
MaxFullPages == 51
\* the most entries of one list in a response, and the most product
\* containers of one search page
MaxEntries == 3
MaxContainers == 2
\* the most orders of one listing
MaxOrders == 2

\* --------------------------------------------------------------- constants
Mode600 == 384
\* max_pages of EFreshClient.get_orders
max_pages == 50
None == "None"
Targets == {"efresh", "skroutz", "sklavenitis", "skroutz_auth", "sklavenitis_auth"}
Emails == {"u1"}
Products == {"p1"}
Quantities == 1..MaxQty

EmptyCart == [p \in Products |-> 0]

\* ----------------------------------------------------------------- cookies
EmptyCookies == [n \in {} |-> "x"]

\* dict.update / cookie jar set: values of `new' override those of `old'
Merge(new, old) ==
  [n \in (DOMAIN new) \cup (DOMAIN old) |-> IF n \in DOMAIN new THEN new[n] ELSE old[n]]

\* cookie maps the model draws from (sessions handed to save_session,
\* Set-Cookie headers of the retailer)
CookieChoices ==
  { EmptyCookies,
    [n \in {"sid"} |-> "a"],
    [n \in {"sid", "xsrf"} |-> IF n = "sid" THEN "a" ELSE "t"] }

\* ------------------------------------------------------------- SessionData
SessionData(c, e, a) ==
  [cookies |-> c, user_id |-> None, user_email |-> e, is_authenticated |-> a]

EmptySession == SessionData(EmptyCookies, None, FALSE)

\* ------------------------------------------------------------ session file
\* The file holds a text; `kind' tells what json.load makes of it:
\*   "object"       a JSON object of the shape the AuthManager writes (data)
\*   "invalid_json" not JSON (a truncated or foreign file)
\*   "list"         valid JSON, but a list
\*   "wrong_types"  a JSON object whose "cookies" member is a list of strings
\* mode is the permission bits; 0 makes the file unreadable and unwritable.
NoFile == [exists |-> FALSE, kind |-> "none", data |-> EmptySession, mode |-> 0]

Mode644 == 420

\* owner read / owner write bit
Readable(f) == (f.mode \div 256) % 2 = 1
Writable(f) == (f.mode \div 128) % 2 = 1

\* what can be found in place of the session file at start-up
FileFaults(f) ==
  { [exists |-> TRUE, kind |-> k, data |-> EmptySession, mode |-> Mode644] :
      k \in {"invalid_json", "list", "wrong_types"} }
  \cup (IF f.exists THEN { [f EXCEPT !.mode = 0] } ELSE {})

\* The step of a write (open, json.dump, os.chmod) that fails, "ok" if none
\* does; an existing file without the write bit makes open fail.
IoOutcomes == {"ok", "open_fails", "write_fails", "chmod_fails"}

IoChoices(f) == IF f.exists /\ ~Writable(f) THEN {"open_fails"} ELSE IoOutcomes

\* the file after open(file, "w"); json.dump(data); os.chmod(file, 0o600)
\* when step io fails: a new file is created with the default mode
FileAfterWrite(f, data, io) ==
  LET before == IF f.exists THEN f.mode ELSE Mode644
  IN  CASE io = "ok"          -> [exists |-> TRUE, kind |-> "object", data |-> data,
                                  mode |-> Mode600]
        [] io = "open_fails"  -> f
        [] io = "write_fails" -> [exists |-> TRUE, kind |-> "invalid_json",
                                  data |-> EmptySession, mode |-> before]
        [] OTHER              -> [exists |-> TRUE, kind |-> "object", data |-> data,
                                  mode |-> before]

\* json.dump(self.session.model_dump(), f): the four fields of the record
model_dump_json(s) ==
  [cookies |-> s.cookies, user_id |-> s.user_id, user_email |-> s.user_email,
   is_authenticated |-> s.is_authenticated]

\* ------------------------------------------------- AuthManager (skroutz)
AuthManager_is_authenticated(s) == s.is_authenticated /\ (DOMAIN s.cookies # {})

AuthManager_get_cookies(s) == s.cookies

\* _save_session: write the dump, then chmod 0600
\* (AuthManager__save_session_no_chmod: the write without the chmod)
AuthManager__save_session_no_chmod(s, f) ==
  [exists |-> TRUE, kind |-> "object", data |-> model_dump_json(s),
   mode |-> IF f.exists THEN f.mode ELSE Mode644]

AuthManager__save_session(s, f) ==
  [exists |-> TRUE, kind |-> "object", data |-> model_dump_json(s), mode |-> Mode600]

\* _load_session: how it ends. Only json.JSONDecodeError and ValueError are
\* caught: open() on an unreadable file raises PermissionError (an OSError),
\* SessionData(**data) on a list raises TypeError, and both leave
\* _load_session and __init__; pydantic's ValidationError for wrongly typed
\* fields is a ValueError and is caught.
AuthManager__load_session_outcome(f) ==
  IF ~f.exists THEN "fresh"
  ELSE IF ~Readable(f) THEN "raise_permission"
  ELSE IF f.kind = "invalid_json" THEN "fresh"
  ELSE IF f.kind = "list" THEN "raise_type"
  ELSE IF f.kind = "wrong_types" THEN "fresh"
  ELSE "loaded"

\* _load_session: SessionData(**json.load(f)); a JSONDecodeError or
\* ValueError gives SessionData(); a missing file gives SessionData()
AuthManager__load_session(f) ==
  IF AuthManager__load_session_outcome(f) = "loaded"
    THEN SessionData(f.data.cookies, f.data.user_email, f.data.is_authenticated)
    ELSE EmptySession

AuthManager_save_session(s, f, c, e) ==
  LET s2 == SessionData(c, e, TRUE)
  IN  [session |-> s2, file |-> AuthManager__save_session(s2, f)]

\* save_session when step io of the write fails: the session is replaced
\* (lines 59-63), then _save_session has no try and the OSError leaves
\* save_session
AuthManager_save_session_io(s, f, c, e, io) ==
  LET ok == AuthManager_save_session(s, f, c, e)
  IN  IF io = "ok" THEN [session |-> ok.session, file |-> ok.file, result |-> "none"]
      ELSE [session |-> ok.session,
            file |-> FileAfterWrite(f, model_dump_json(ok.session), io),
            result |-> "raise_os"]

AuthManager_clear_session_keep_file(s, f) ==
  [session |-> EmptySession, file |-> f]

AuthManager_clear_session(s, f) ==
  [session |-> EmptySession, file |-> NoFile]

\* ---- environment of the skroutz AuthManager
Unset == "<unset>"
EnvVars == {"SKROUTZ_HELMET_COUCH", "SKROUTZ_CF_CLEARANCE", "SKROUTZ_DD",
            "SKROUTZ_LOGGED_IN", "SKROUTZ_ZLCMID"}

NoEnv == [vars |-> [v \in EnvVars |-> Unset], cookies_json |-> [kind |-> "unset", cookies |-> EmptyCookies]]

EnvChoices ==
  { NoEnv,
    [NoEnv EXCEPT !.vars["SKROUTZ_LOGGED_IN"] = ""],
    [NoEnv EXCEPT !.vars["SKROUTZ_HELMET_COUCH"] = "h"],
    [NoEnv EXCEPT !.vars["SKROUTZ_LOGGED_IN"] = "",
                  !.cookies_json = [kind |-> "dict", cookies |-> [n \in {"sid"} |-> "a"]]] }

\* environments the client target is run in
ClientEnvChoices == { NoEnv, [NoEnv EXCEPT !.vars["SKROUTZ_LOGGED_IN"] = ""] }

\* os.environ.get(name) / os.environ.get(name, default)
EnvGet(env, name, default) == IF env.vars[name] = Unset THEN default ELSE env.vars[name]

\* truthiness of an optional string
Truthy(v) == v # Unset /\ v # ""

\* the cookies dict built by _load_cookies_from_env
EnvCookies(env) ==
  LET helmet_couch == EnvGet(env, "SKROUTZ_HELMET_COUCH", Unset)
      cf_clearance == EnvGet(env, "SKROUTZ_CF_CLEARANCE", Unset)
      dd           == EnvGet(env, "SKROUTZ_DD", Unset)
      logged_in    == EnvGet(env, "SKROUTZ_LOGGED_IN", "true")
      zlcmid       == EnvGet(env, "SKROUTZ_ZLCMID", Unset)
      names == (IF Truthy(helmet_couch) THEN {"_helmet_couch"} ELSE {})
          \cup (IF Truthy(cf_clearance) THEN {"cf_clearance"} ELSE {})
          \cup (IF Truthy(dd) THEN {"dd"} ELSE {})
          \cup (IF Truthy(logged_in) THEN {"logged_in"} ELSE {})
          \cup (IF Truthy(zlcmid) THEN {"__zlcmid"} ELSE {})
      individual ==
        [n \in names |->
           CASE n = "_helmet_couch" -> helmet_couch
             [] n = "cf_clearance"  -> cf_clearance
             [] n = "dd"            -> dd
             [] n = "logged_in"     -> logged_in
             [] OTHER               -> zlcmid]
  IN  IF names # {} THEN individual
      ELSE IF env.cookies_json.kind = "dict" THEN env.cookies_json.cookies
      ELSE EmptyCookies

AuthManager__load_cookies_from_env(s, f, env) ==
  LET cookies == EnvCookies(env)
  IN  IF DOMAIN cookies # {}
        THEN LET s2 == SessionData(cookies, None, TRUE)
             IN  [session |-> s2, file |-> AuthManager__save_session(s2, f)]
        ELSE [session |-> s, file |-> f]

\* AuthManager.__init__: an exception of _load_session leaves the
\* constructor, and no AuthManager is built
AuthManager_init(f, env) ==
  LET how == AuthManager__load_session_outcome(f)
      a   == AuthManager__load_cookies_from_env(AuthManager__load_session(f), f, env)
  IN  IF how \in {"raise_permission", "raise_type"}
        THEN [session |-> EmptySession, file |-> f, result |-> how]
        ELSE [session |-> a.session, file |-> a.file, result |-> "none"]

\* --------------------------------------------- AuthManager (sklavenitis)
\* attributes cookies / is_authenticated; the file holds {"cookies": {...}}
SklSession(c, a) == [cookies |-> c, is_authenticated |-> a]

Zipcodes == {None, "11141", "abc"}

\* int(zipcode); valid = FALSE stands for the None returned on ValueError
Skl__get_hub_id_from_zipcode(zipcode) ==
  CASE zipcode = "11141" -> [valid |-> TRUE, value |-> 11141]
    [] zipcode = "0"     -> [valid |-> TRUE, value |-> 0]
    [] OTHER             -> [valid |-> FALSE, value |-> 0]

\* json.dumps({"ShippingType": 1, "HubID": hub_id})
ZoneValue(hub_id) == IF hub_id = 11141 THEN "zone-11141" ELSE "zone-other"

Skl__set_zone_cookie(s, zipcode) ==
  IF zipcode = None THEN s
  ELSE LET hub_id == Skl__get_hub_id_from_zipcode(zipcode)
       IN  IF hub_id.valid /\ hub_id.value # 0
             THEN [s EXCEPT !.cookies = Merge([n \in {"Zone"} |-> ZoneValue(hub_id.value)], s.cookies)]
             ELSE s

Skl_save_session(s, f, c) ==
  [session |-> SklSession(c, DOMAIN c # {}),
   file |-> [exists |-> TRUE, kind |-> "object", data |-> [cookies |-> c], mode |-> Mode600]]

\* save_session when step io of the write fails: the attributes are set
\* first, the write is inside try/except Exception, which logs and goes on
Skl_save_session_io(s, f, c, io) ==
  LET ok == Skl_save_session(s, f, c)
  IN  [session |-> ok.session,
       file |-> IF io = "ok" THEN ok.file ELSE FileAfterWrite(f, [cookies |-> c], io),
       result |-> "none"]

Skl_clear_session(s, f) ==
  [session |-> SklSession(EmptyCookies, FALSE), file |-> NoFile]

\* legacy cookie file ~/.sklavenitis_cookies.json: absent, or a cookie dict
NoLegacy == [exists |-> FALSE, cookies |-> EmptyCookies]

\* what data.get("cookies", {}) is for a file whose "cookies" is a list:
\* the list itself, kept as the cookies attribute (indexes as names)
ListAsCookies == [n \in {"0"} |-> "a"]

\* _load_session: every exception of the read is caught (except Exception);
\* a list has no .get (AttributeError, caught); a "cookies" member of any
\* type is taken as it is and is_authenticated = bool(cookies)
Skl__load_session(f, legacy) ==
  LET fromFile == IF f.exists /\ Readable(f) /\ f.kind = "object"
                    THEN SklSession(f.data.cookies, DOMAIN f.data.cookies # {})
                  ELSE IF f.exists /\ Readable(f) /\ f.kind = "wrong_types"
                    THEN SklSession(ListAsCookies, TRUE)
                  ELSE SklSession(EmptyCookies, FALSE)
  IN  IF fromFile.is_authenticated THEN [session |-> fromFile, file |-> f]
      ELSE IF legacy.exists
        THEN IF DOMAIN legacy.cookies # {}
               THEN Skl_save_session(fromFile, f, legacy.cookies)
               ELSE [session |-> SklSession(legacy.cookies, FALSE), file |-> f]
        ELSE [session |-> fromFile, file |-> f]

\* AuthManager.__init__(session_file, zipcode)
Skl_init(f, legacy, zipcode) ==
  LET l == Skl__load_session(f, legacy)
  IN  [session |-> Skl__set_zone_cookie(l.session, zipcode), file |-> l.file]

\* ================================================================ retailer
\* What one HTTP request can come back with:
\*   "ok"         status 200, the request was carried out, usable body
\*   "rejected"   status 200, body reports a failure, nothing was done
\*   "garbage"    status 200, body is not what the parser expects
\*   "http_error" status 500
\*   "blocked"    status 403, Cloudflare markers in the body
\*   "transport"  the HTTP library raises (connection error, timeout)
RespKinds ==
  {"ok", "rejected", "garbage", "http_error", "blocked", "challenge", "transport"}

\* "blocked" is a 403 whose body names Cloudflare, "challenge" a 200 that
\* carries the Cloudflare challenge page ("checking your browser")
Status(k) ==
  CASE k \in {"ok", "rejected", "garbage", "challenge"} -> 200
    [] k = "http_error" -> 500
    [] k = "blocked"    -> 403
    [] OTHER            -> 0

\* the answers that are an anti-bot block
BlockKinds == {"blocked", "challenge"}

\* cookie jar after a response of kind k carrying Set-Cookie setc
Receive(j, k, setc) == IF k = "transport" THEN j ELSE Merge(setc, j)

\* the retailer's cart after a request of kind k that asks to put `pid' in
\* the cart; sent = the quantity in the request body, 0 when the body has
\* none (the retailer then adds one unit); absolute = the endpoint sets the
\* quantity (e-fresh) instead of adding to it
RemoteAdd(crt, k, pid, sent, absolute) ==
  IF k # "ok" \/ pid \notin Products THEN crt
  ELSE LET n == IF sent = 0 THEN 1 ELSE sent
       IN  [crt EXCEPT ![pid] = IF absolute THEN n ELSE crt[pid] + n]

RemoteSet(crt, k, pid, q) ==
  IF k # "ok" \/ pid \notin Products THEN crt ELSE [crt EXCEPT ![pid] = q]

RemoteRemove(crt, k, pid) ==
  IF k # "ok" \/ pid \notin Products THEN crt ELSE [crt EXCEPT ![pid] = 0]

\* result record of a client operation
Ret(res, reqs, s, f, j, crt) ==
  [result |-> res, reqs |-> reqs, session |-> s, file |-> f, jar |-> j, cart |-> crt,
   items |-> EmptyCart]

\* ============================================================ EFreshClient
\* _update_cookies: the jar is cleared and refilled from the AuthManager
EFresh__update_cookies(s, j) == AuthManager_get_cookies(s)

\* _save_cookies: a non-empty jar is saved as the session
EFresh__save_cookies(s, f, j) ==
  IF DOMAIN j # {}
    THEN AuthManager_save_session(s, f, j, s.user_email)
    ELSE [session |-> s, file |-> f]

\* add_to_cart after its authentication test: the API request, then the
\* form request when the API attempt did not answer 200/201
EFresh_add_to_cart_requests(s, f, j, crt, pid, qty, k1, k2, setc) ==
  LET j1   == EFresh__update_cookies(s, j)
      req1 == "POST /api/cart/add"
      req2 == "POST /el/cart/add"
      j2   == Receive(j1, k1, setc)
      c2   == RemoteAdd(crt, k1, pid, qty, TRUE)
      a2   == EFresh__save_cookies(s, f, j2)
      j3   == Receive(j2, k2, setc)
      c3   == RemoteAdd(c2, k2, pid, qty, TRUE)
      a3   == EFresh__save_cookies(s, f, j3)
  IN  IF Status(k1) \in {200, 201}
        THEN Ret("true", <<req1>>, a2.session, a2.file, j2, c2)
      ELSE IF k2 = "transport"
        THEN Ret("raise_transport", <<req1, req2>>, s, f, j2, c2)
      ELSE Ret(IF Status(k2) \in {200, 201, 302} THEN "true" ELSE "false",
               <<req1, req2>>, a3.session, a3.file, j3, c3)

\* add_to_cart without its authentication test
EFresh_add_to_cart_no_auth_check(s, f, j, crt, pid, qty, k1, k2, setc) ==
  EFresh_add_to_cart_requests(s, f, j, crt, pid, qty, k1, k2, setc)

\* add_to_cart(product_id, quantity)
EFresh_add_to_cart(s, f, j, crt, pid, qty, k1, k2, setc) ==
  IF ~AuthManager_is_authenticated(s)
    THEN Ret("raise_auth", <<>>, s, f, j, crt)
    ELSE EFresh_add_to_cart_requests(s, f, j, crt, pid, qty, k1, k2, setc)

\* remove_from_cart(product_id)
EFresh_remove_from_cart(s, f, j, crt, pid, k1, k2, setc) ==
  LET j1   == EFresh__update_cookies(s, j)
      req1 == "POST /api/cart/remove"
      req2 == "POST /el/cart/remove"
      j2   == Receive(j1, k1, setc)
      c2   == RemoteRemove(crt, k1, pid)
      a2   == EFresh__save_cookies(s, f, j2)
      j3   == Receive(j2, k2, setc)
      c3   == RemoteRemove(c2, k2, pid)
      a3   == EFresh__save_cookies(s, f, j3)
  IN  IF ~AuthManager_is_authenticated(s)
        THEN Ret("raise_auth", <<>>, s, f, j, crt)
      ELSE IF Status(k1) \in {200, 204}
        THEN Ret("true", <<req1>>, a2.session, a2.file, j2, c2)
      ELSE IF k2 = "transport"
        THEN Ret("raise_transport", <<req1, req2>>, s, f, j2, c2)
      ELSE Ret(IF Status(k2) \in {200, 204, 302} THEN "true" ELSE "false",
               <<req1, req2>>, a3.session, a3.file, j3, c3)

\* update_cart_item_quantity(product_id, quantity): add_to_cart with the
\* new quantity
EFresh_update_cart_item_quantity(s, f, j, crt, pid, qty, k1, k2, setc) ==
  EFresh_add_to_cart(s, f, j, crt, pid, qty, k1, k2, setc)

\* ======================================================= SkroutzClientCffi
\* _update_cookies: the AuthManager's cookies are set on top of the jar
Cffi__update_cookies(s, j) == Merge(AuthManager_get_cookies(s), j)

Cffi__save_cookies(s, f, j) ==
  IF DOMAIN j # {}
    THEN AuthManager_save_session(s, f, j, s.user_email)
    ELSE [session |-> s, file |-> f]

\* add_to_cart(sku_id, product_id, shop_id, price, quantity): kc is the
\* outcome of the CSRF-token fetch, k1 of the add request, whose body
\* carries no quantity
Cffi_add_to_cart(s, f, j, crt, pid, qty, kc, k1, setc) ==
  LET j1   == Cffi__update_cookies(s, j)
      reqc == "GET /cart"
      req1 == "POST /cart/add/sku.json"
      jc   == Receive(j1, kc, setc)
      j2   == Receive(jc, k1, setc)
      c2   == RemoteAdd(crt, k1, pid, 0, FALSE)
      a2   == Cffi__save_cookies(s, f, j2)
  IN  IF ~AuthManager_is_authenticated(s)
        THEN Ret("raise_auth", <<>>, s, f, j, crt)
      ELSE IF k1 = "transport"
        THEN Ret("false", <<reqc, req1>>, s, f, jc, crt)
      ELSE IF Status(k1) = 200
        THEN Ret("true", <<reqc, req1>>, a2.session, a2.file, j2, c2)
      ELSE Ret("false", <<reqc, req1>>, s, f, j2, c2)

\* get_product_details_for_cart(sku_id_or_url): in_url = the argument is a
\* URL with a product_id parameter, which is answered without a request;
\* otherwise the product page is fetched (kd) and parsed
Cffi_get_product_details_for_cart(s, f, j, crt, in_url, kd, setc) ==
  LET j1   == Cffi__update_cookies(s, j)
      reqd == "GET /s/sku"
  IN  IF in_url THEN Ret("details", <<>>, s, f, j1, crt)
      ELSE IF kd = "transport" THEN Ret("no_details", <<reqd>>, s, f, j1, crt)
      ELSE Ret(IF kd = "ok" THEN "details" ELSE "no_details",
               <<reqd>>, s, f, Receive(j1, kd, setc), crt)

\* the client call a server tool makes: not made, or made with its outcome
NoInner == [called |-> FALSE, result |-> "none", reqs |-> <<>>]

\* sse_server.call_tool("skroutz_add_to_cart"): the product details are
\* looked up, then add_to_cart is called; any exception becomes an error
\* text. The handler has no ensure_authenticated() and no login call.
Sse_call_tool_add_to_cart(s, f, j, crt, pid, qty, in_url, kd, kc, k1, setc) ==
  LET d == Cffi_get_product_details_for_cart(s, f, j, crt, in_url, kd, setc)
      a == Cffi_add_to_cart(d.session, d.file, d.jar, d.cart, pid, qty, kc, k1, setc)
      text == CASE a.result = "true"  -> "text_added"
                [] a.result = "false" -> "text_failed"
                [] OTHER              -> "text_error"
  IN  IF d.result # "details"
        THEN [tool |-> Ret("text_no_details", d.reqs, d.session, d.file, d.jar, d.cart),
              inner |-> NoInner, logins |-> 0, login |-> "none", caught |-> FALSE]
        ELSE [tool |-> Ret(text, d.reqs \o a.reqs, a.session, a.file, a.jar, a.cart),
              inner |-> [called |-> TRUE, result |-> a.result, reqs |-> a.reqs],
              logins |-> 0, login |-> "none",
              caught |-> a.result \notin {"true", "false"}]

\* remove_from_cart(line_item_id)
Cffi_remove_from_cart(s, f, j, crt, pid, k1, setc) ==
  LET j1   == Cffi__update_cookies(s, j)
      req1 == "POST /cart/remove_line_item"
      j2   == Receive(j1, k1, setc)
      c2   == RemoteRemove(crt, k1, pid)
      a2   == Cffi__save_cookies(s, f, j2)
  IN  IF ~AuthManager_is_authenticated(s)
        THEN Ret("raise_auth", <<>>, s, f, j, crt)
      ELSE IF k1 = "transport"
        THEN Ret("false", <<req1>>, s, f, j1, crt)
      ELSE IF Status(k1) \in {200, 204, 302}
        THEN Ret("true", <<req1>>, a2.session, a2.file, j2, c2)
      ELSE Ret("false", <<req1>>, s, f, j2, c2)

\* update_cart_item_quantity(line_item_id, quantity)
Cffi_update_cart_item_quantity(s, f, j, crt, pid, qty, kc, k1, setc) ==
  LET j1   == Cffi__update_cookies(s, j)
      reqc == "GET /cart"
      req1 == "POST /cart/change_line_item_quantity.json"
      jc   == Receive(j1, kc, setc)
      j2   == Receive(jc, k1, setc)
      c2   == RemoteSet(crt, k1, pid, qty)
      a2   == Cffi__save_cookies(s, f, j2)
  IN  IF ~AuthManager_is_authenticated(s)
        THEN Ret("raise_auth", <<>>, s, f, j, crt)
      ELSE IF k1 = "transport"
        THEN Ret("false", <<reqc, req1>>, s, f, jc, crt)
      ELSE IF Status(k1) = 200
        THEN Ret("true", <<reqc, req1>>, a2.session, a2.file, j2, c2)
      ELSE Ret("false", <<reqc, req1>>, s, f, j2, c2)

\* ------------------------------------------------- reading the cart
RetCart(items, reqs, s, f, j, crt) ==
  [result |-> "cart", reqs |-> reqs, session |-> s, file |-> f, jar |-> j, cart |-> crt,
   items |-> items]

\* EFreshClient._parse_cart_from_html: the pattern cart: (\{.*?\}) stops at
\* the first closing brace, so a cart object that nests item objects does not
\* load as JSON and Cart() is returned; an empty cart parses as empty
EFresh__parse_cart_from_html(crt) == EmptyCart

\* EFreshClient.get_cart()
EFresh_get_cart(s, f, j, crt, k1, k2, setc) ==
  LET j1   == EFresh__update_cookies(s, j)
      req1 == "GET /api/cart"
      req2 == "GET /el/cart"
      j2   == Receive(j1, k1, setc)
      j3   == Receive(j2, k2, setc)
  IN  IF ~AuthManager_is_authenticated(s)
        THEN Ret("raise_auth", <<>>, s, f, j, crt)
      ELSE IF k1 = "ok"
        THEN RetCart(crt, <<req1>>, s, f, j2, crt)
      ELSE IF k1 = "rejected"
        THEN RetCart(EmptyCart, <<req1>>, s, f, j2, crt)
      ELSE IF k2 = "transport"
        THEN Ret("raise_transport", <<req1, req2>>, s, f, j2, crt)
      ELSE IF Status(k2) # 200
        THEN Ret("raise_http", <<req1, req2>>, s, f, j3, crt)
      ELSE RetCart(IF k2 = "ok" THEN EFresh__parse_cart_from_html(crt) ELSE EmptyCart,
                   <<req1, req2>>, s, f, j3, crt)

NonEmpty(items) == \E p \in Products : items[p] > 0

\* SkroutzClientCffi.get_cart(): k1 /cart.json, kv the visit of /cart,
\* km /cart/mini_cart, k3 the full /cart page
Cffi_get_cart(s, f, j, crt, k1, kv, km, k3, setc) ==
  LET j1   == Cffi__update_cookies(s, j)
      req1 == "GET /cart.json"
      reqv == "GET /cart"
      reqm == "GET /cart/mini_cart"
      req3 == "GET /cart"
      j2   == Receive(j1, k1, setc)
      jv   == Receive(j2, kv, setc)
      jm   == Receive(jv, km, setc)
      j3   == Receive(jm, k3, setc)
  IN  IF ~AuthManager_is_authenticated(s)
        THEN Ret("raise_auth", <<>>, s, f, j, crt)
      ELSE IF k1 = "ok" /\ NonEmpty(crt)
        THEN RetCart(crt, <<req1>>, s, f, j2, crt)
      ELSE IF kv = "transport"
        THEN RetCart(EmptyCart, <<req1, reqv>>, s, f, j2, crt)
      ELSE IF km = "transport"
        THEN RetCart(EmptyCart, <<req1, reqv, reqm>>, s, f, jv, crt)
      ELSE IF km = "ok" /\ NonEmpty(crt)
        THEN RetCart(crt, <<req1, reqv, reqm>>, s, f, jm, crt)
      ELSE IF k3 = "transport"
        THEN RetCart(EmptyCart, <<req1, reqv, reqm, req3>>, s, f, jm, crt)
      ELSE IF k3 \in {"blocked", "challenge"}
        THEN Ret("raise_blocked", <<req1, reqv, reqm, req3>>, s, f, j3, crt)
      ELSE IF Status(k3) # 200
        THEN RetCart(EmptyCart, <<req1, reqv, reqm, req3>>, s, f, j3, crt)
      ELSE RetCart(IF k3 = "ok" THEN crt ELSE EmptyCart,
                   <<req1, reqv, reqm, req3>>, s, f, j3, crt)

\* SkroutzClientCffi.get_orders(): the JSON endpoints are tried in order, the
\* nj-th is the first to answer 200 with JSON (0 = none does); then the
\* orders page (k); found = the answer used lists orders
OrdersJsonEndpoints ==
  <<"GET /account/orders.json", "GET /api/orders", "GET /ecommerce/api/v1/orders">>

Cffi_get_orders(s, f, j, crt, nj, k, found) ==
  LET j1   == Cffi__update_cookies(s, j)
      reqp == "GET /account/orders"
      all  == Append(OrdersJsonEndpoints, reqp)
  IN  IF ~AuthManager_is_authenticated(s)
        THEN Ret("raise_auth", <<>>, s, f, j, crt)
      ELSE IF nj > 0
        THEN Ret(IF found THEN "orders" ELSE "empty_list",
                 SubSeq(OrdersJsonEndpoints, 1, nj), s, f, j1, crt)
      ELSE IF k = "transport" \/ Status(k) # 200
        THEN Ret("empty_list", all, s, f, j1, crt)
      ELSE IF k = "challenge"
        THEN Ret("raise_blocked", all, s, f, j1, crt)
      ELSE Ret(IF k = "ok" /\ found THEN "orders" ELSE "empty_list", all, s, f, j1, crt)

\* SkroutzClientCffi.get_order_details(order_id): k = "not_found" is a 404
Cffi_get_order_details(s, f, j, crt, k) ==
  LET j1  == Cffi__update_cookies(s, j)
      req == <<"GET /account/ecommerce/orders/id">>
  IN  IF ~AuthManager_is_authenticated(s)
        THEN Ret("raise_auth", <<>>, s, f, j, crt)
      ELSE IF k = "challenge"
        THEN Ret("raise_blocked", req, s, f, j1, crt)
      ELSE Ret(IF k = "ok" THEN "order" ELSE "null", req, s, f, j1, crt)

\* ------------------------------------------------------------------ logout
\* EFreshClient.logout()
EFresh_logout(s, f, j, crt, k1, setc) ==
  LET a == AuthManager_clear_session(s, f)
  IN  Ret("none",
          IF AuthManager_is_authenticated(s) THEN <<"GET /el/account/logout">> ELSE <<>>,
          a.session, a.file, EmptyCookies, crt)

Cffi_logout_keep_jar(s, f, j, crt, k1, setc) ==
  LET a == AuthManager_clear_session(s, f)
  IN  Ret("none",
          IF AuthManager_is_authenticated(s) THEN <<"GET /logout">> ELSE <<>>,
          a.session, a.file,
          IF AuthManager_is_authenticated(s) THEN Receive(Cffi__update_cookies(s, j), k1, setc) ELSE j,
          crt)

\* SkroutzClientCffi.logout()
Cffi_logout(s, f, j, crt, k1, setc) ==
  LET a == AuthManager_clear_session(s, f)
  IN  Ret("none",
          IF AuthManager_is_authenticated(s) THEN <<"GET /logout">> ELSE <<>>,
          a.session, a.file, EmptyCookies, crt)

\* ------------------------------------------------------------------ search
Queries == {None, "", "milk"}
Eans == {None, "520"}

\* Python truthiness of an Optional[str] argument
Given(x) == x # None /\ x # ""

RetList(nonempty, reqs, s, f, j, crt) ==
  Ret(IF nonempty THEN "products" ELSE "empty_list", reqs, s, f, j, crt)

EFresh_search_products_no_check(s, f, j, crt, query, ean, k1, setc, found) ==
  LET j1 == EFresh__update_cookies(s, j)
      j2 == Receive(j1, k1, setc)
  IN  RetList(k1 = "ok" /\ found, <<"GET /api/list">>, s, f, j2, crt)

\* EFreshClient.search_products(query, ean); found = the response lists a
\* product that survives the EAN filter
EFresh_search_products(s, f, j, crt, query, ean, k1, setc, found) ==
  IF ~Given(query) /\ ~Given(ean)
    THEN Ret("raise_input", <<>>, s, f, j, crt)
    ELSE EFresh_search_products_no_check(s, f, j, crt, query, ean, k1, setc, found)

\* (Cffi_search_products_save_cookies: a search that also saves the jar)
Cffi_search_products_save_cookies(s, f, j, crt, query, k1, setc, found) ==
  LET j1 == Cffi__update_cookies(s, j)
      j2 == Receive(j1, k1, setc)
      a  == Cffi__save_cookies(s, f, j2)
  IN  RetList(Status(k1) = 200 /\ k1 = "ok" /\ found, <<"GET /search">>,
              a.session, a.file, j2, crt)

\* SkroutzClientCffi.search_products(query)
Cffi_search_products(s, f, j, crt, query, k1, setc, found) ==
  LET j1 == Cffi__update_cookies(s, j)
      j2 == Receive(j1, k1, setc)
  IN  RetList(Status(k1) = 200 /\ k1 = "ok" /\ found, <<"GET /search">>, s, f, j2, crt)

\* ------------------------------------------------------------------- login
\* the tail of a successful login in all three clients:
\*   self._save_cookies(); session.user_email = email;
\*   session.is_authenticated = True; auth_manager._save_session()
LoginSuccess(saved, email) ==
  LET s2 == [saved.session EXCEPT !.user_email = email, !.is_authenticated = TRUE]
  IN  [session |-> s2, file |-> AuthManager__save_session(s2, saved.file)]

\* EFreshClient.login(credentials): k1 login page, k2 POST
\* /api/account/login, k3 the /api/address/view probe
EFresh_login_attempt(s, f, j, crt, email, k1, k2, k3, setc) ==
  LET req1 == "GET /el/account/login"
      req2 == "POST /api/account/login"
      req3 == "GET /api/address/view"
      j1   == Receive(j, k1, setc)
      j2   == Receive(j1, k2, setc)
      j3   == Receive(j2, k3, setc)
      a    == LoginSuccess(EFresh__save_cookies(s, f, j3), email)
  IN  IF k1 = "transport"
        THEN Ret("raise_transport", <<req1>>, s, f, j, crt)
      ELSE IF Status(k1) # 200
        THEN Ret("raise_http", <<req1>>, s, f, j1, crt)
      ELSE IF k2 = "transport"
        THEN Ret("raise_transport", <<req1, req2>>, s, f, j1, crt)
      ELSE IF k2 # "ok"
        THEN Ret("false", <<req1, req2>>, s, f, j2, crt)
      ELSE IF k3 \in {"transport", "garbage", "rejected"}
        THEN Ret("false", <<req1, req2, req3>>, s, f, j3, crt)
      ELSE Ret("true", <<req1, req2, req3>>, a.session, a.file, j3, crt)

\* (EFresh_login_clear_on_failure: a login that drops the session it had
\* when the attempt fails)
EFresh_login_clear_on_failure(s, f, j, crt, email, k1, k2, k3, setc) ==
  LET r == EFresh_login_attempt(s, f, j, crt, email, k1, k2, k3, setc)
  IN  IF r.result = "false" THEN [r EXCEPT !.session = EmptySession] ELSE r

\* EFreshClient.login(credentials)
EFresh_login(s, f, j, crt, email, k1, k2, k3, setc) ==
  EFresh_login_attempt(s, f, j, crt, email, k1, k2, k3, setc)

\* SkroutzClientCffi.login(credentials): k1 GET /login, k2 the e-mail POST
\* ("ok" = password page, "garbage" = 200 and redirected away from /login),
\* k3 the password POST ("ok" = 200 away from /login), kv GET /account
\* ("ok" = 200 with a logout link)
Cffi_login(s, f, j, crt, email, k1, k2, k3, kv, setc) ==
  LET req1 == "GET /login"
      req2 == "POST /login"
      req3 == "POST /login"
      reqv == "GET /account"
      j1   == Receive(j, k1, setc)
      j2   == Receive(j1, k2, setc)
      two  == (k2 = "ok")
      j3   == IF two THEN Receive(j2, k3, setc) ELSE j2
      sent == IF two THEN <<req1, req2, req3>> ELSE <<req1, req2>>
      away == IF two THEN k3 = "ok" ELSE k2 = "garbage"
      jv   == Receive(j3, kv, setc)
      a    == LoginSuccess(Cffi__save_cookies(s, f, jv), email)
  IN  IF k1 = "transport"
        THEN Ret("false", <<req1>>, s, f, j, crt)
      ELSE IF Status(k1) # 200
        THEN Ret("false", <<req1>>, s, f, j1, crt)
      ELSE IF k2 = "transport"
        THEN Ret("false", <<req1, req2>>, s, f, j1, crt)
      ELSE IF two /\ k3 = "transport"
        THEN Ret("false", sent, s, f, j2, crt)
      ELSE IF ~away
        THEN Ret("false", sent, s, f, j3, crt)
      ELSE IF kv = "transport"
        THEN Ret("false", Append(sent, reqv), s, f, j3, crt)
      ELSE IF kv # "ok"
        THEN Ret("false", Append(sent, reqv), s, f, jv, crt)
      ELSE Ret("true", Append(sent, reqv), a.session, a.file, jv, crt)

\* ------------------------------------------------- EFreshClient.get_orders
\* The remote's behaviour over the listing pages: pages 1..n_full come back
\* full (200, per_page orders), the page after them comes back as `last'.
OrderPageKinds == {"short", "empty", "garbage", "http_error", "transport"}

\* the while loop of get_orders from `page' on, stopping when page > limit;
\* pages = the page numbers requested so far, got = all_orders is non-empty;
\* exc = the loop was left by an exception
RECURSIVE EFresh_get_orders_pages_upto(_, _, _, _, _, _)
EFresh_get_orders_pages_upto(limit, page, n_full, last, pages, got) ==
  IF page > limit THEN [pages |-> pages, got |-> got, exc |-> FALSE]
  ELSE LET k  == IF page <= n_full THEN "full" ELSE last
           rq == Append(pages, page)
       IN  CASE k = "full"  -> EFresh_get_orders_pages_upto(limit, page + 1, n_full, last, rq, TRUE)
             [] k = "short" -> [pages |-> rq, got |-> TRUE, exc |-> FALSE]
             [] k \in {"empty", "http_error"} -> [pages |-> rq, got |-> got, exc |-> FALSE]
             [] OTHER       -> [pages |-> rq, got |-> got, exc |-> TRUE]

\* the loop without its page ceiling
EFresh_get_orders_pages_no_ceiling(page, n_full, last, pages, got) ==
  EFresh_get_orders_pages_upto(MaxFullPages + 1, page, n_full, last, pages, got)

\* while page <= max_pages
EFresh_get_orders_pages(page, n_full, last, pages, got) ==
  EFresh_get_orders_pages_upto(max_pages, page, n_full, last, pages, got)

\* get_orders(include_history=True, include_items=False): the paginated API,
\* then the account page (k2; found = its embedded JSON lists orders) when
\* the API gave nothing or raised
EFresh_get_orders(s, f, j, crt, n_full, last, k2, found) ==
  LET j1   == EFresh__update_cookies(s, j)
      loop == EFresh_get_orders_pages(1, n_full, last, <<>>, FALSE)
      api  == [i \in 1..Len(loop.pages) |-> "POST /api/account/orders"]
      req2 == "GET /el/account/orders"
  IN  IF ~AuthManager_is_authenticated(s)
        THEN [ret |-> Ret("raise_auth", <<>>, s, f, j, crt), pages |-> <<>>]
      ELSE IF ~loop.exc /\ loop.got
        THEN [ret |-> Ret("orders", api, s, f, j1, crt), pages |-> loop.pages]
      ELSE IF k2 = "transport"
        THEN [ret |-> Ret("raise_transport", Append(api, req2), s, f, j1, crt),
              pages |-> loop.pages]
      ELSE IF Status(k2) # 200
        THEN [ret |-> Ret("raise_http", Append(api, req2), s, f, j1, crt),
              pages |-> loop.pages]
      ELSE [ret |-> Ret(IF k2 = "ok" /\ found THEN "orders" ELSE "empty_list",
                        Append(api, req2), s, f, j1, crt),
            pages |-> loop.pages]

\* ----------------------------------------- get_orders with include_items
\* An order of a listing: items = "listing" is what the listing carries,
\* "details" the items of the order's detail answer
Order(i, st) == [id |-> i, status |-> st, items |-> "listing"]

\* o.status.lower() in ["pending", "confirmed", "processing"]
ActiveOrder(o) == o.status \in {"pending", "confirmed", "processing"}

\* answers to the detail request: "ok" an order with items, "empty" an order
\* without items, otherwise no order
DetailKinds == {"ok", "empty", "http_error", "transport"}

\* EFreshClient.get_order_details(order_id)
EFresh_get_order_details(s, f, j, crt, k) ==
  LET j1 == EFresh__update_cookies(s, j)
  IN  IF ~AuthManager_is_authenticated(s)
        THEN Ret("raise_auth", <<>>, s, f, j, crt)
        ELSE Ret(CASE k = "ok" -> "order" [] k = "empty" -> "order_no_items" [] OTHER -> "null",
                 <<"POST /api/account/order">>, s, f, j1, crt)

\* the list after the include_history filter
EFresh_filter_orders(orders, include_history) ==
  IF include_history THEN orders ELSE SelectSeq(orders, ActiveOrder)

\* for order in orders: one get_order_details each, inside its own try;
\* the items are replaced when the answer is an order that has items
EFresh_fetch_items(s, f, j, crt, orders, details) ==
  [orders  |-> [i \in 1..Len(orders) |->
                  IF EFresh_get_order_details(s, f, j, crt, details[orders[i].id]).result = "order"
                    THEN [orders[i] EXCEPT !.items = "details"]
                    ELSE orders[i]],
   fetched |-> [i \in 1..Len(orders) |-> orders[i].id]]

\* get_orders(include_history, include_items): listed = the orders of the
\* API pages, html = the orders embedded in the account page
EFresh_get_orders_items(s, f, j, crt, include_history, include_items, n_full, last, listed, details, k2, html) ==
  LET base == EFresh_get_orders(s, f, j, crt, n_full, last, k2, html # <<>>)
      loop == EFresh_get_orders_pages(1, n_full, last, <<>>, FALSE)
      api  == EFresh_filter_orders(listed, include_history)
      with == IF include_items
                THEN EFresh_fetch_items(s, f, base.ret.jar, crt, api, details)
                ELSE [orders |-> api, fetched |-> <<>>]
      det  == [i \in 1..Len(with.fetched) |-> "POST /api/account/order"]
      page == EFresh_filter_orders(html, include_history)
      Tag(l) == IF l # <<>> THEN "orders" ELSE "empty_list"
  IN  IF base.ret.result \notin {"orders", "empty_list"}
        THEN [ret |-> base.ret, orders |-> <<>>, fetched |-> <<>>]
      ELSE IF ~loop.exc /\ loop.got
        THEN [ret |-> [base.ret EXCEPT !.reqs = @ \o det, !.result = Tag(with.orders)],
              orders |-> with.orders, fetched |-> with.fetched]
      ELSE [ret |-> [base.ret EXCEPT !.result = Tag(page)], orders |-> page,
            fetched |-> <<>>]

\* ======================================================= SklavenitisClient
\* _update_cookies: jar refilled from the AuthManager, plus a default Zone
Sklavenitis__update_cookies(s, j) ==
  LET c == AuthManager_get_cookies(s)
  IN  IF "Zone" \in DOMAIN c THEN c ELSE Merge([n \in {"Zone"} |-> "zone-9"], c)

\* _save_cookies(response): the jar plus the Set-Cookie headers
Sklavenitis__save_cookies(s, f, j, setc) ==
  LET cookies == Merge(setc, j)
  IN  IF DOMAIN cookies # {}
        THEN AuthManager_save_session(s, f, cookies, s.user_email)
        ELSE [session |-> s, file |-> f]

\* SklavenitisClient.search_products(query, ean)
Sklavenitis_search_products(s, f, j, crt, query, ean, k1, setc, found) ==
  LET j1 == Sklavenitis__update_cookies(s, j)
      j2 == Receive(j1, k1, setc)
  IN  IF ~Given(query) /\ ~Given(ean)
        THEN Ret("raise_input", <<>>, s, f, j, crt)
        ELSE RetList(k1 = "ok" /\ found, <<"GET /ajax/Search.Index">>, s, f, j2, crt)

\* SklavenitisClient.add_to_cart(product_id, quantity)
Sklavenitis_add_to_cart(s, f, j, crt, pid, qty, k1, setc) ==
  LET j1   == Sklavenitis__update_cookies(s, j)
      req1 == "POST /el/ajax/AddToCartUserFlow.Index"
      j2   == Receive(j1, k1, setc)
      c2   == RemoteSet(crt, k1, pid, qty)
      a2   == Sklavenitis__save_cookies(s, f, j2, IF k1 = "transport" THEN EmptyCookies ELSE setc)
  IN  IF ~AuthManager_is_authenticated(s)
        THEN Ret("raise_auth", <<>>, s, f, j, crt)
      ELSE IF k1 = "transport"
        THEN Ret("false", <<req1>>, s, f, j1, crt)
      ELSE IF Status(k1) \in {200, 201}
        THEN Ret("true", <<req1>>, a2.session, a2.file, j2, c2)
      ELSE Ret("false", <<req1>>, s, f, j2, c2)

\* SklavenitisClient.login(credentials): k1 the homepage, k2 the login form
\* ("ok" = the form carries the verification token), k3 the login POST, kv
\* the account page ("ok" = it shows a logout link)
Sklavenitis_login(s, f, j, crt, email, k1, k2, k3, kv, setc) ==
  LET req1 == "GET /"
      req2 == "GET /el/ajax/LoginUserFlow.Index"
      req3 == "POST /el/ajax/LoginUserFlow.Index"
      reqv == "GET /account/prosopika-stoiheia"
      j1   == Receive(j, k1, setc)
      j2   == Receive(j1, k2, setc)
      j3   == Receive(j2, k3, setc)
      jv   == Receive(j3, kv, setc)
      a    == LoginSuccess(Sklavenitis__save_cookies(s, f, jv, setc), email)
  IN  IF k1 = "transport"
        THEN Ret("raise_transport", <<req1>>, s, f, j, crt)
      ELSE IF Status(k1) # 200
        THEN Ret("raise_http", <<req1>>, s, f, j1, crt)
      ELSE IF k2 = "transport"
        THEN Ret("raise_transport", <<req1, req2>>, s, f, j1, crt)
      ELSE IF Status(k2) # 200
        THEN Ret("raise_http", <<req1, req2>>, s, f, j2, crt)
      ELSE IF k2 # "ok"
        THEN Ret("false", <<req1, req2>>, s, f, j2, crt)
      ELSE IF k3 = "transport"
        THEN Ret("raise_transport", <<req1, req2, req3>>, s, f, j2, crt)
      ELSE IF kv = "transport"
        THEN Ret("raise_transport", <<req1, req2, req3, reqv>>, s, f, j3, crt)
      ELSE IF kv # "ok"
        THEN Ret("false", <<req1, req2, req3, reqv>>, s, f, jv, crt)
      ELSE Ret("true", <<req1, req2, req3, reqv>>, a.session, a.file, jv, crt)

\* SklavenitisClient.logout()
Sklavenitis_logout(s, f, j, crt, k1, setc) ==
  LET a == AuthManager_clear_session(s, f)
  IN  Ret("none",
          IF AuthManager_is_authenticated(s) THEN <<"POST /ajax/Account.LogOut">> ELSE <<>>,
          a.session, a.file, EmptyCookies, crt)

\* ---------------------------------------------------------- list parsers
\* One entry of a list in a response: ok = it has the shape the model
\* constructor accepts (a malformed one makes Product(...) or Decimal(...)
\* raise)
Entry(i, ok) == [id |-> i, ok |-> ok]

\* EFreshClient._parse_products_from_api(products_data): each entry is
\* parsed inside its own try; a failure is logged and the loop continues
RECURSIVE EFresh__parse_products_from_api(_)
EFresh__parse_products_from_api(products_data) ==
  IF products_data = <<>> THEN <<>>
  ELSE (IF Head(products_data).ok THEN <<Head(products_data)>> ELSE <<>>)
         \o EFresh__parse_products_from_api(Tail(products_data))

\* the inner loop of _parse_products_from_ajax_search, `for item in items',
\* which has no try of its own: the first item that raises ends the loop
RECURSIVE Sklavenitis_container_items(_)
Sklavenitis_container_items(items) ==
  IF items = <<>> \/ ~Head(items).ok THEN <<>>
  ELSE <<Head(items)>> \o Sklavenitis_container_items(Tail(items))

\* SklavenitisClient._parse_products_from_ajax_search(html): the try is
\* around one product container (its analytics JSON and all of its items);
\* products appended before the failure stay in the list
RECURSIVE Sklavenitis__parse_products_from_ajax_search(_)
Sklavenitis__parse_products_from_ajax_search(containers) ==
  IF containers = <<>> THEN <<>>
  ELSE (IF Head(containers).json_ok
          THEN Sklavenitis_container_items(Head(containers).items)
          ELSE <<>>)
         \o Sklavenitis__parse_products_from_ajax_search(Tail(containers))

\* ==================================================== MCP tool servers
\* server.py, module state: `credentials' is set once in main() from the
\* environment (config.credentials: both e-mail and password are set).
\*
\* ensure_authenticated(): lg = what client.login(credentials) does if it is
\* called. A login that returns False or raises leaves the helper at False.
\* (ensure_authenticated_any_login: the helper without the test of `success')
ensure_authenticated_any_login(s, f, j, crt, credentials, lg) ==
  IF AuthManager_is_authenticated(s)
    THEN [ok |-> TRUE, logins |-> 0, after |-> Ret("none", <<>>, s, f, j, crt)]
  ELSE IF credentials
    THEN [ok |-> TRUE, logins |-> 1, after |-> lg]
  ELSE [ok |-> FALSE, logins |-> 0, after |-> Ret("none", <<>>, s, f, j, crt)]

ensure_authenticated(s, f, j, crt, credentials, lg) ==
  IF AuthManager_is_authenticated(s)
    THEN [ok |-> TRUE, logins |-> 0, after |-> Ret("none", <<>>, s, f, j, crt)]
  ELSE IF credentials
    THEN [ok |-> lg.result = "true", logins |-> 1, after |-> lg]
  ELSE [ok |-> FALSE, logins |-> 0, after |-> Ret("none", <<>>, s, f, j, crt)]

\* what a tool call returns: the text (tool.result) with the state it leaves,
\* the client operation it made (inner), the login attempts it made and
\* whether an exception was caught on the way
ToolRet(text, reqs, st, inner, e, caught) ==
  [tool |-> Ret(text, reqs, st.session, st.file, st.jar, st.cart),
   inner |-> inner, logins |-> e.logins, login |-> e.after.result, caught |-> caught]

\* a tool that does not call ensure_authenticated()
NoEnsure == [logins |-> 0, after |-> [result |-> "none"]]

Called(c) == [called |-> TRUE, result |-> c.result, reqs |-> c.reqs]

Raised(c) == c.result \in {"raise_auth", "raise_transport", "raise_http",
                           "raise_input", "raise_blocked"}

\* the texts of a cart mutation tool; an exception of the client call is
\* caught by the except clause that closes call_tool ("Error: <message>")
\* (MutationText_no_except: call_tool without that clause)
MutationText_no_except(c) ==
  CASE c.result = "true"  -> "text_done"
    [] c.result = "false" -> "text_failed"
    [] OTHER              -> c.result

MutationText(c) ==
  CASE c.result = "true"  -> "text_done"
    [] c.result = "false" -> "text_failed"
    [] OTHER              -> "text_error"

\* efresh server.call_tool("efresh_add_to_cart", arguments): has_pid = the
\* arguments carry "product_id" (arguments["product_id"] raises KeyError
\* otherwise, which the handler's except clause turns into an error text)
EFresh_call_tool_add_to_cart(s, f, j, crt, credentials, lg, has_pid, pid, qty, k1, k2, setc) ==
  LET e == ensure_authenticated(s, f, j, crt, credentials, lg)
      b == e.after
      a == EFresh_add_to_cart(b.session, b.file, b.jar, b.cart, pid, qty, k1, k2, setc)
  IN  IF ~e.ok
        THEN ToolRet("text_not_authenticated", b.reqs, b, NoInner, e, FALSE)
      ELSE IF ~has_pid
        THEN ToolRet("text_error", b.reqs, b, NoInner, e, TRUE)
      ELSE ToolRet(MutationText(a), b.reqs \o a.reqs, a, Called(a), e, Raised(a))

\* efresh server.call_tool("efresh_search_products", arguments): no
\* authentication is asked for
EFresh_call_tool_search_products(s, f, j, crt, query, ean, k1, setc, found) ==
  LET c == EFresh_search_products(s, f, j, crt, query, ean, k1, setc, found)
      text == CASE c.result = "products"   -> "text_products"
                [] c.result = "empty_list" -> "text_no_products"
                [] OTHER                   -> "text_error"
  IN  ToolRet(text, c.reqs, c, Called(c), NoEnsure, Raised(c))

\* call_tool(name, arguments) with a name no branch matches
call_tool_unknown(s, f, j, crt) ==
  ToolRet("text_unknown_tool", <<>>, [session |-> s, file |-> f, jar |-> j, cart |-> crt],
          NoInner, NoEnsure, FALSE)

\* skroutz server.call_tool("skroutz_get_cart", arguments): get_cart() has
\* its own try/except, which words the error by its message
Skroutz_call_tool_get_cart(s, f, j, crt, credentials, lg, k1, kv, km, k3, setc) ==
  LET e == ensure_authenticated(s, f, j, crt, credentials, lg)
      b == e.after
      c == Cffi_get_cart(b.session, b.file, b.jar, b.cart, k1, kv, km, k3, setc)
      text == CASE c.result = "raise_blocked" -> "text_cloudflare"
                [] Raised(c)                  -> "text_error_fetching"
                [] NonEmpty(c.items)          -> "text_cart"
                [] OTHER                      -> "text_cart_empty"
  IN  IF ~e.ok
        THEN ToolRet("text_not_authenticated", b.reqs, b, NoInner, e, FALSE)
        ELSE [ToolRet(text, b.reqs \o c.reqs, c, Called(c), e, Raised(c))
                EXCEPT !.tool.items = c.items]

\* sklavenitis server.call_tool("sklavenitis_add_to_cart", arguments)
Sklavenitis_call_tool_add_to_cart(s, f, j, crt, credentials, lg, has_pid, pid, qty, k1, setc) ==
  LET e == ensure_authenticated(s, f, j, crt, credentials, lg)
      b == e.after
      a == Sklavenitis_add_to_cart(b.session, b.file, b.jar, b.cart, pid, qty, k1, setc)
  IN  IF ~e.ok
        THEN ToolRet("text_not_authenticated", b.reqs, b, NoInner, e, FALSE)
      ELSE IF ~has_pid
        THEN ToolRet("text_error", b.reqs, b, NoInner, e, TRUE)
      ELSE ToolRet(MutationText(a), b.reqs \o a.reqs, a, Called(a), e, Raised(a))

\* ========================================================= REST servers
\* http_server.py (efresh, skroutz): FastAPI handlers over the same client.
\* A handler's answer is its HTTP status: "http_200", "http_400", ...
\*
\* The except clauses of a handler, tried in order on the exception raised in
\* its try block. exc is "HTTPException_<status>", "ValueError" or
\* "Exception"; clauses lists the clauses the handler has. HTTPException is
\* a subclass of Exception, so `except Exception' matches it too and answers
\* 500 with the message as detail.
Rest_except(clauses, exc) ==
  LET is_http == exc \in {"HTTPException_400", "HTTPException_401", "HTTPException_404"}
      own     == CASE exc = "HTTPException_400" -> "http_400"
                   [] exc = "HTTPException_401" -> "http_401"
                   [] OTHER                     -> "http_404"
  IN  IF "HTTPException" \in clauses /\ is_http THEN own
      ELSE IF "ValueError" \in clauses /\ exc = "ValueError" THEN "http_400"
      ELSE "http_500"

\* the exception a raising client call hands to the handler
ExcOf(c) == IF c.result = "raise_input" THEN "ValueError" ELSE "Exception"

\* the clauses of the handlers of authenticated operations
\* (except HTTPException: raise / except Exception)
AuthClauses == {"HTTPException", "Exception"}

\* efresh POST /products/search: except ValueError / except Exception
SearchClauses == {"ValueError", "Exception"}

State(s, f, j, crt) == [session |-> s, file |-> f, jar |-> j, cart |-> crt]

\* efresh POST /products/search
EFresh_rest_search_products(s, f, j, crt, query, ean, k1, setc, found) ==
  LET c == EFresh_search_products(s, f, j, crt, query, ean, k1, setc, found)
  IN  IF ~Given(query) /\ ~Given(ean)
        THEN ToolRet(Rest_except(SearchClauses, "HTTPException_400"), <<>>,
                     State(s, f, j, crt), NoInner, NoEnsure, TRUE)
      ELSE IF Raised(c)
        THEN ToolRet(Rest_except(SearchClauses, ExcOf(c)), c.reqs, c, Called(c), NoEnsure, TRUE)
      ELSE ToolRet("http_200", c.reqs, c, Called(c), NoEnsure, FALSE)

\* POST /auth/login (efresh): the login of the client, 500 when it raises
EFresh_rest_login(lg) ==
  ToolRet(IF Raised(lg) THEN "http_500" ELSE "http_200", lg.reqs, lg, Called(lg),
          NoEnsure, Raised(lg))

\* the handlers of the authenticated operations that make one client call
\* (GET /cart, POST /cart/remove, POST /cart/update, POST /orders and, for
\* efresh, POST /cart/add): c = what the client call does if it is made
Rest_call(s, f, j, crt, c) ==
  IF Raised(c)
    THEN ToolRet(Rest_except(AuthClauses, ExcOf(c)), c.reqs, c, Called(c), NoEnsure, TRUE)
    ELSE [ToolRet("http_200", c.reqs, c, Called(c), NoEnsure, FALSE)
            EXCEPT !.tool.items = c.items]

\* the handler without its authentication test
Rest_authenticated_no_check(s, f, j, crt, c) ==
  Rest_call(s, f, j, crt, c)

Rest_authenticated(s, f, j, crt, c) ==
  IF ~AuthManager_is_authenticated(s)
    THEN ToolRet(Rest_except(AuthClauses, "HTTPException_401"), <<>>,
                 State(s, f, j, crt), NoInner, NoEnsure, TRUE)
    ELSE Rest_call(s, f, j, crt, c)

\* skroutz GET /orders/{order_id}: 404 when the client finds no order
Skroutz_rest_get_order_details(s, f, j, crt, c) ==
  IF AuthManager_is_authenticated(s) /\ c.result = "null"
    THEN ToolRet(Rest_except(AuthClauses, "HTTPException_404"), c.reqs, c, Called(c),
                 NoEnsure, TRUE)
    ELSE Rest_authenticated(s, f, j, crt, c)

\* skroutz POST /cart/add: the product details are looked up, then
\* add_to_cart is called
Skroutz_rest_add_to_cart(s, f, j, crt, pid, qty, in_url, kd, kc, k1, setc) ==
  LET d == Cffi_get_product_details_for_cart(s, f, j, crt, in_url, kd, setc)
      a == Cffi_add_to_cart(d.session, d.file, d.jar, d.cart, pid, qty, kc, k1, setc)
  IN  IF ~AuthManager_is_authenticated(s)
        THEN ToolRet(Rest_except(AuthClauses, "HTTPException_401"), <<>>,
                     State(s, f, j, crt), NoInner, NoEnsure, TRUE)
      ELSE IF d.result # "details"
        THEN ToolRet("http_200", d.reqs, d, NoInner, NoEnsure, FALSE)
      ELSE IF Raised(a)
        THEN ToolRet(Rest_except(AuthClauses, ExcOf(a)), d.reqs \o a.reqs, a, Called(a),
                     NoEnsure, TRUE)
      ELSE ToolRet("http_200", d.reqs \o a.reqs, a, Called(a), NoEnsure, FALSE)

\* =================================================================== state
VARIABLES
  config,    \* [target, env, zipcode, credentials]: fixed for the life of the process
  session,   \* AuthManager.session (SessionData) / cookies+flag (sklavenitis)
  file,      \* the session file
  legacy,    \* ~/.sklavenitis_cookies.json
  jar,       \* the client's own cookie jar (httpx / curl_cffi session)
  cart,      \* the retailer's cart: product -> quantity (0 = not in cart)
  op,        \* the operation that ran last: arguments, requests, result
  pw         \* SkroutzClientPlaywright: browser, context cookies, operation in flight

vars == <<config, session, file, legacy, jar, cart, op, pw>>

target == config.target

NoPrev == [name |-> "none", result |-> "none", pid |-> None, qty |-> 0]

NoOp ==
  [name |-> "init", prev |-> NoPrev, result |-> "none", reqs |-> <<>>,
   pid |-> None, qty |-> 0, query |-> None, ean |-> None,
   cookies |-> EmptyCookies, email |-> None,
   items |-> EmptyCart, was_auth |-> FALSE, before |-> 0, inner |-> NoInner,
   pages |-> <<>>, blocked |-> FALSE,
   tool |-> None, logins |-> 0, login |-> "none", caught |-> FALSE,
   io |-> "ok", found |-> NoFile, kinds |-> <<>>, body |-> <<>>, parsed |-> <<>>,
   include_history |-> TRUE, include_items |-> FALSE, orders |-> <<>>, fetched |-> <<>>]

\* is_authenticated() as the state has it
Authenticated == session.is_authenticated /\ DOMAIN session.cookies # {}

\* a fresh record for operation `name', remembering the one before it
Op(name) ==
  [NoOp EXCEPT !.name = name, !.was_auth = Authenticated]

\* the same, also remembering the operation that ran just before
OpAfter(name) ==
  [Op(name) EXCEPT
     !.prev = [name |-> op.name, result |-> op.result, pid |-> op.pid, qty |-> op.qty]]

\* credentials: <RETAILER>_EMAIL and <RETAILER>_PASSWORD are both set in the
\* environment of a server process. Targets: a client used directly
\* ("efresh", "skroutz", "sklavenitis"), an AuthManager used directly
\* ("*_auth"), a stdio tool server ("*_server"), a REST server ("*_http").
\* the processes that build a SkroutzClientCffi over an AuthManager
SkroutzTargets == {"skroutz", "skroutz_server", "skroutz_http"}

ServerTargets == {"efresh_server", "skroutz_server", "sklavenitis_server"}

ConfigChoices ==
     { [target |-> "skroutz_auth", env |-> e, zipcode |-> None, credentials |-> FALSE] :
         e \in EnvChoices }
  \cup { [target |-> "skroutz", env |-> e, zipcode |-> None, credentials |-> FALSE] :
         e \in ClientEnvChoices }
  \cup { [target |-> t, env |-> NoEnv, zipcode |-> None, credentials |-> FALSE] :
         t \in {"efresh", "sklavenitis"} }
  \cup { [target |-> "sklavenitis_auth", env |-> NoEnv, zipcode |-> z, credentials |-> FALSE] :
         z \in Zipcodes }
  \cup { [target |-> "skroutz_server", env |-> e, zipcode |-> None, credentials |-> c] :
         e \in ClientEnvChoices, c \in BOOLEAN }
  \cup { [target |-> t, env |-> NoEnv, zipcode |-> None, credentials |-> c] :
         t \in {"efresh_server", "sklavenitis_server"}, c \in BOOLEAN }
  \cup { [target |-> "skroutz_http", env |-> e, zipcode |-> None, credentials |-> FALSE] :
         e \in ClientEnvChoices }
  \cup { [target |-> "efresh_http", env |-> NoEnv, zipcode |-> None, credentials |-> FALSE] }

LegacyChoices == { NoLegacy, [exists |-> TRUE, cookies |-> [n \in {"sid"} |-> "b"]] }

\* the client's jar right after the client is constructed
\* (SkroutzClientCffi.__init__ calls _update_cookies; the others start empty)
JarAfterInit(t, s) ==
  IF t \in SkroutzTargets THEN s.cookies ELSE EmptyCookies

\* no operation of the Playwright client in flight
NoTask == [name |-> "none", pid |-> "none", qty |-> 0, sent |-> EmptyCookies,
           cookies |-> EmptyCookies, logout |-> FALSE, result |-> "none"]

\* no call of _wait_for_cloudflare under way
NoWait == [pc |-> "idle", timeout |-> 0, waited |-> 0, indicators |-> FALSE,
           challenge_url |-> FALSE, result |-> "none"]

\* SkroutzClientPlaywright.__init__: no browser, no context, no page;
\* overlapped: logout() completed, and no login after it, while the operation
\* that has just finished was in flight
NoPw == [started |-> FALSE, context |-> EmptyCookies, task |-> NoTask,
         overlapped |-> FALSE, wait |-> NoWait]

Init ==
  /\ pw = NoPw
  /\ config \in ConfigChoices
  /\ legacy \in (IF target = "sklavenitis_auth" THEN LegacyChoices ELSE {NoLegacy})
  /\ LET a == CASE target \in SkroutzTargets \cup {"skroutz_auth"}
                      -> AuthManager_init(NoFile, config.env)
                 [] target = "sklavenitis_auth" -> Skl_init(NoFile, legacy, config.zipcode)
                 [] OTHER                       -> [session |-> EmptySession, file |-> NoFile]
     IN  /\ session = a.session
         /\ file = a.file
         /\ jar = JarAfterInit(target, a.session)
  /\ cart = EmptyCart
  /\ op = NoOp

\* ------------------------------------------------- AuthManager operations
\* an AuthManager exists: the last construction did not raise
Built == op.result \notin {"raise_permission", "raise_type", "no_manager"}

\* AuthManager.save_session(cookies, user_email)
SaveSession ==
  /\ target = "skroutz_auth"
  /\ Built
  /\ \E c \in CookieChoices, e \in Emails \cup {None}, io \in IoChoices(file) :
       LET a == AuthManager_save_session_io(session, file, c, e, io)
       IN  /\ session' = a.session
           /\ file' = a.file
           /\ op' = [Op("save_session") EXCEPT !.cookies = c, !.email = e, !.io = io,
                                               !.result = a.result]
  /\ UNCHANGED <<pw, config, legacy, jar, cart>>

\* AuthManager.clear_session()
ClearSession ==
  /\ target = "skroutz_auth"
  /\ Built
  /\ LET a == AuthManager_clear_session(session, file)
     IN  /\ session' = a.session
         /\ file' = a.file
  /\ op' = OpAfter("clear_session")
  /\ UNCHANGED <<pw, config, legacy, jar, cart>>

\* process restart: a new AuthManager (and client) on the same session file
Construct ==
  /\ target = "skroutz_auth"
  /\ LET a == AuthManager_init(file, config.env)
     IN  /\ session' = a.session
         /\ file' = a.file
         /\ jar' = JarAfterInit(target, a.session)
         /\ op' = [OpAfter("construct") EXCEPT !.cookies = op.cookies, !.email = op.email,
                                              !.found = file, !.result = a.result]
  /\ UNCHANGED <<pw, config, legacy, cart>>

\* between two runs of the process the session file is damaged, replaced or
\* made inaccessible
TamperFile ==
  /\ target \in {"skroutz_auth", "sklavenitis_auth"}
  /\ op.name # "tamper"
  /\ \E f \in FileFaults(file) :
       /\ file' = f
       /\ op' = [NoOp EXCEPT !.name = "tamper",
                              !.result = IF Built THEN "none" ELSE "no_manager"]
  /\ UNCHANGED <<pw, config, session, legacy, jar, cart>>

\* sklavenitis AuthManager.save_session(cookies)
SklSaveSession ==
  /\ target = "sklavenitis_auth"
  /\ \E c \in CookieChoices, io \in IoChoices(file) :
       LET a == Skl_save_session_io(session, file, c, io)
       IN  /\ session' = a.session
           /\ file' = a.file
           /\ op' = [Op("save_session") EXCEPT !.cookies = c, !.io = io,
                                               !.result = a.result]
  /\ UNCHANGED <<pw, config, legacy, jar, cart>>

\* sklavenitis AuthManager.clear_session()
SklClearSession ==
  /\ target = "sklavenitis_auth"
  /\ LET a == Skl_clear_session(session, file)
     IN  /\ session' = a.session
         /\ file' = a.file
  /\ op' = OpAfter("clear_session")
  /\ UNCHANGED <<pw, config, legacy, jar, cart>>

\* a new sklavenitis AuthManager on the same files
SklConstruct ==
  /\ target = "sklavenitis_auth"
  /\ LET a == Skl_init(file, legacy, config.zipcode)
     IN  /\ session' = a.session
         /\ file' = a.file
  /\ op' = [OpAfter("construct") EXCEPT !.cookies = op.cookies, !.email = op.email,
                                       !.found = file]
  /\ UNCHANGED <<pw, config, legacy, jar, cart>>

\* ------------------------------------------------------ client operations
\* Outcomes are drawn only for the requests an operation gets to issue; a
\* request that is not issued gets the placeholder outcome.
MutKinds == {"ok", "rejected", "http_error", "transport"}
ReadKinds == {"ok", "garbage", "http_error", "blocked", "transport"}
SetCookieChoices == { EmptyCookies, [n \in {"sid"} |-> "b"] }

Issued(cond, kinds) == IF cond THEN kinds ELSE {"ok"}
IssuedCookies(cond) == IF cond THEN SetCookieChoices ELSE {EmptyCookies}

\* the state after a client operation that returned r
Apply(o, r) ==
  /\ \A p \in Products : r.cart[p] <= MaxCart
  /\ session' = r.session
  /\ file' = r.file
  /\ jar' = r.jar
  /\ cart' = r.cart
  /\ op' = [o EXCEPT !.result = r.result, !.reqs = r.reqs, !.items = r.items]
  /\ UNCHANGED <<pw, config, legacy>>

\* the state after a server tool call that returned r
ApplyTool(o, name, r) ==
  Apply([o EXCEPT !.tool = name, !.inner = r.inner, !.logins = r.logins, !.login = r.login,
                  !.caught = r.caught],
        r.tool)

\* `before' is the quantity of pid in the retailer's cart when the call starts
CartOp(name, pid, qty) ==
  [Op(name) EXCEPT !.pid = pid, !.qty = qty, !.before = cart[pid]]

EFreshAddToCart ==
  /\ target = "efresh"
  /\ \E pid \in Products, qty \in Quantities, setc \in IssuedCookies(Authenticated) :
     \E k1 \in Issued(Authenticated, MutKinds) :
     \E k2 \in Issued(Authenticated /\ Status(k1) # 200, MutKinds) :
       Apply(CartOp("add_to_cart", pid, qty),
             EFresh_add_to_cart(session, file, jar, cart, pid, qty, k1, k2, setc))

EFreshRemoveFromCart ==
  /\ target = "efresh"
  /\ \E pid \in Products, setc \in IssuedCookies(Authenticated) :
     \E k1 \in Issued(Authenticated, MutKinds) :
     \E k2 \in Issued(Authenticated /\ Status(k1) # 200, MutKinds) :
       Apply(CartOp("remove_from_cart", pid, 0),
             EFresh_remove_from_cart(session, file, jar, cart, pid, k1, k2, setc))

EFreshUpdateCartItemQuantity ==
  /\ target = "efresh"
  /\ \E pid \in Products, qty \in Quantities, setc \in IssuedCookies(Authenticated) :
     \E k1 \in Issued(Authenticated, MutKinds) :
     \E k2 \in Issued(Authenticated /\ Status(k1) # 200, MutKinds) :
       Apply(CartOp("update_cart_item_quantity", pid, qty),
             EFresh_update_cart_item_quantity(session, file, jar, cart, pid, qty, k1, k2, setc))

EFreshGetCart ==
  /\ target = "efresh"
  /\ \E setc \in IssuedCookies(Authenticated) :
     \E k1 \in Issued(Authenticated, ReadKinds \cup {"rejected"}) :
     \E k2 \in Issued(Authenticated /\ k1 \notin {"ok", "rejected"}, ReadKinds) :
       Apply(OpAfter("get_cart"), EFresh_get_cart(session, file, jar, cart, k1, k2, setc))

\* the numbers of full pages tried: none, a few, just under, at and over the ceiling
FullPageCounts == {0, 1, 2, max_pages - 1, max_pages, MaxFullPages}

EFreshGetOrders ==
  /\ target = "efresh"
  /\ \E n_full \in IF Authenticated THEN FullPageCounts ELSE {0} :
     \E last \in Issued(Authenticated, OrderPageKinds) :
     \E k2 \in Issued(Authenticated
                        /\ \/ (n_full < max_pages /\ last \in {"garbage", "transport"})
                           \/ (n_full = 0 /\ last \in {"empty", "http_error"}),
                      ReadKinds) :
     \E found \in IF k2 = "ok" THEN BOOLEAN ELSE {FALSE} :
       LET r == EFresh_get_orders(session, file, jar, cart, n_full, last, k2, found)
       IN  Apply([Op("get_orders") EXCEPT !.pages = r.pages], r.ret)

EFreshLogin ==
  /\ target = "efresh"
  /\ \E email \in Emails, setc \in SetCookieChoices :
     \E k1 \in {"ok", "http_error", "transport"} :
     \E k2 \in Issued(k1 = "ok", MutKinds) :
     \E k3 \in Issued(k1 = "ok" /\ k2 = "ok", ReadKinds \cup {"rejected"}) :
       Apply([Op("login") EXCEPT !.email = email, !.cookies = setc],
             EFresh_login(session, file, jar, cart, email, k1, k2, k3, setc))

EFreshLogout ==
  /\ target = "efresh"
  /\ \E k1 \in Issued(Authenticated, {"ok", "http_error", "transport"}) :
       Apply(Op("logout"), EFresh_logout(session, file, jar, cart, k1, EmptyCookies))

EFreshSearchProducts ==
  /\ target = "efresh"
  /\ \E query \in Queries, ean \in Eans :
     \E setc \in IssuedCookies(Given(query) \/ Given(ean)) :
     \E k1 \in Issued(Given(query) \/ Given(ean), {"ok", "http_error", "transport"}) :
     \E found \in IF (Given(query) \/ Given(ean)) /\ k1 = "ok" THEN BOOLEAN ELSE {FALSE} :
       Apply([Op("search_products") EXCEPT
                !.query = query, !.ean = ean,
                !.kinds = IF Given(query) \/ Given(ean) THEN <<k1>> ELSE <<>>],
             EFresh_search_products(session, file, jar, cart, query, ean, k1, setc, found))

CffiAddToCart ==
  /\ target = "skroutz"
  /\ \E pid \in Products, qty \in Quantities, setc \in IssuedCookies(Authenticated) :
     \E kc \in Issued(Authenticated, {"ok", "transport"}) :
     \E k1 \in Issued(Authenticated, MutKinds) :
       Apply(CartOp("add_to_cart", pid, qty),
             Cffi_add_to_cart(session, file, jar, cart, pid, qty, kc, k1, setc))

SseCallToolAddToCart ==
  /\ target = "skroutz"
  /\ \E pid \in Products, qty \in Quantities, in_url \in BOOLEAN, setc \in SetCookieChoices :
     \E kd \in Issued(~in_url, {"ok", "garbage", "transport"}) :
     \E kc \in Issued(kd = "ok" /\ Authenticated, {"ok", "transport"}) :
     \E k1 \in Issued(kd = "ok" /\ Authenticated, MutKinds) :
       LET r == Sse_call_tool_add_to_cart(session, file, jar, cart, pid, qty,
                                          in_url, kd, kc, k1, setc)
       IN  ApplyTool(CartOp("sse_skroutz_add_to_cart", pid, qty), "skroutz_add_to_cart", r)

CffiRemoveFromCart ==
  /\ target = "skroutz"
  /\ \E pid \in Products, setc \in IssuedCookies(Authenticated) :
     \E k1 \in Issued(Authenticated, MutKinds) :
       Apply(CartOp("remove_from_cart", pid, 0),
             Cffi_remove_from_cart(session, file, jar, cart, pid, k1, setc))

CffiUpdateCartItemQuantity ==
  /\ target = "skroutz"
  /\ \E pid \in Products, qty \in Quantities, setc \in IssuedCookies(Authenticated) :
     \E kc \in Issued(Authenticated, {"ok", "transport"}) :
     \E k1 \in Issued(Authenticated, MutKinds) :
       Apply(CartOp("update_cart_item_quantity", pid, qty),
             Cffi_update_cart_item_quantity(session, file, jar, cart, pid, qty, kc, k1, setc))

CffiGetCart ==
  /\ target = "skroutz"
  /\ \E setc \in IssuedCookies(Authenticated) :
     \E k1 \in Issued(Authenticated, {"ok", "garbage", "transport"}) :
     \E kv \in Issued(Authenticated /\ ~(k1 = "ok" /\ NonEmpty(cart)), {"ok", "transport"}) :
     \E km \in Issued(Authenticated /\ ~(k1 = "ok" /\ NonEmpty(cart)) /\ kv = "ok",
                      {"ok", "garbage", "transport"}) :
     \E k3 \in Issued(Authenticated /\ ~(k1 = "ok" /\ NonEmpty(cart)) /\ kv = "ok"
                        /\ km # "transport" /\ ~(km = "ok" /\ NonEmpty(cart)),
                      ReadKinds \cup {"challenge"}) :
       Apply([OpAfter("get_cart") EXCEPT !.blocked = k3 \in BlockKinds],
             Cffi_get_cart(session, file, jar, cart, k1, kv, km, k3, setc))

\* op.blocked: the answer that decided the result was an anti-bot block
\* op.kinds: the answers to the requests of a search, in order
CffiGetOrders ==
  /\ target = "skroutz"
  /\ \E nj \in IF Authenticated THEN 0..Len(OrdersJsonEndpoints) ELSE {0} :
     \E k \in Issued(Authenticated /\ nj = 0, ReadKinds \cup {"challenge"}) :
     \E found \in IF Authenticated /\ (nj > 0 \/ k = "ok") THEN BOOLEAN ELSE {FALSE} :
       Apply([Op("get_orders") EXCEPT !.blocked = Authenticated /\ nj = 0 /\ k \in BlockKinds],
             Cffi_get_orders(session, file, jar, cart, nj, k, found))

CffiGetOrderDetails ==
  /\ target = "skroutz"
  /\ \E k \in Issued(Authenticated, ReadKinds \cup {"challenge", "not_found"}) :
       Apply([Op("get_order_details") EXCEPT !.blocked = Authenticated /\ k \in BlockKinds],
             Cffi_get_order_details(session, file, jar, cart, k))

CffiLogin ==
  /\ target = "skroutz"
  /\ \E email \in Emails, setc \in SetCookieChoices :
     \E k1 \in {"ok", "blocked", "transport"} :
     \E k2 \in Issued(k1 = "ok", {"ok", "garbage", "rejected", "transport"}) :
     \E k3 \in Issued(k1 = "ok" /\ k2 = "ok", {"ok", "rejected", "transport"}) :
     \E kv \in Issued(k1 = "ok" /\ ((k2 = "ok" /\ k3 = "ok") \/ k2 = "garbage"),
                      {"ok", "rejected", "transport"}) :
       Apply([Op("login") EXCEPT !.email = email, !.cookies = setc],
             Cffi_login(session, file, jar, cart, email, k1, k2, k3, kv, setc))

CffiLogout ==
  /\ target = "skroutz"
  /\ \E k1 \in Issued(Authenticated, {"ok", "http_error", "transport"}) :
     \E setc \in IssuedCookies(Authenticated /\ k1 # "transport") :
       Apply(Op("logout"), Cffi_logout(session, file, jar, cart, k1, setc))

CffiSearchProducts ==
  /\ target = "skroutz"
  /\ \E query \in Queries \ {None}, setc \in SetCookieChoices :
     \E k1 \in {"ok", "http_error", "transport"} :
     \E found \in IF k1 = "ok" THEN BOOLEAN ELSE {FALSE} :
       Apply([Op("search_products") EXCEPT !.query = query],
             Cffi_search_products(session, file, jar, cart, query, k1, setc, found))

SklavenitisSearchProducts ==
  /\ target = "sklavenitis"
  /\ \E query \in Queries, ean \in Eans :
     \E setc \in IssuedCookies(Given(query) \/ Given(ean)) :
     \E k1 \in Issued(Given(query) \/ Given(ean), {"ok", "http_error", "transport"}) :
     \E found \in IF (Given(query) \/ Given(ean)) /\ k1 = "ok" THEN BOOLEAN ELSE {FALSE} :
       Apply([Op("search_products") EXCEPT
                !.query = query, !.ean = ean,
                !.kinds = IF Given(query) \/ Given(ean) THEN <<k1>> ELSE <<>>],
             Sklavenitis_search_products(session, file, jar, cart, query, ean, k1, setc, found))

SklavenitisAddToCart ==
  /\ target = "sklavenitis"
  /\ \E pid \in Products, qty \in Quantities, setc \in IssuedCookies(Authenticated) :
     \E k1 \in Issued(Authenticated, MutKinds) :
       Apply(CartOp("add_to_cart", pid, qty),
             Sklavenitis_add_to_cart(session, file, jar, cart, pid, qty, k1, setc))

SklavenitisLogin ==
  /\ target = "sklavenitis"
  /\ \E email \in Emails, setc \in SetCookieChoices :
     \E k1 \in {"ok", "http_error", "transport"} :
     \E k2 \in Issued(k1 = "ok", {"ok", "garbage", "transport"}) :
     \E k3 \in Issued(k1 = "ok" /\ k2 = "ok", {"ok", "rejected", "transport"}) :
     \E kv \in Issued(k1 = "ok" /\ k2 = "ok" /\ k3 # "transport", {"ok", "rejected", "transport"}) :
       Apply([Op("login") EXCEPT !.email = email, !.cookies = setc],
             Sklavenitis_login(session, file, jar, cart, email, k1, k2, k3, kv, setc))

SklavenitisLogout ==
  /\ target = "sklavenitis"
  /\ \E k1 \in Issued(Authenticated, {"ok", "http_error", "transport"}) :
       Apply(Op("logout"), Sklavenitis_logout(session, file, jar, cart, k1, EmptyCookies))

\* ------------------------------------------------------- server tool calls
\* the outcomes of the login that ensure_authenticated() makes
EFreshCallToolAddToCart ==
  /\ target = "efresh_server"
  /\ LET auto == ~Authenticated /\ config.credentials
     IN
     \E lc \in IssuedCookies(auto) :
     \E l1 \in Issued(auto, {"ok", "http_error", "transport"}) :
     \E l2 \in Issued(auto /\ l1 = "ok", MutKinds) :
     \E l3 \in Issued(auto /\ l1 = "ok" /\ l2 = "ok", {"ok", "rejected", "transport"}) :
       LET lg == EFresh_login(session, file, jar, cart, "u1", l1, l2, l3, lc)
           e  == ensure_authenticated(session, file, jar, cart, config.credentials, lg)
       IN
       \E has_pid \in BOOLEAN, pid \in Products, qty \in Quantities :
       \E run \in {e.ok /\ has_pid /\ AuthManager_is_authenticated(e.after.session)} :
       \E setc \in IssuedCookies(run) :
       \E k1 \in Issued(run, MutKinds) :
       \E k2 \in Issued(run /\ Status(k1) # 200, MutKinds) :
         ApplyTool([CartOp("call_tool", pid, qty) EXCEPT !.pid = IF has_pid THEN pid ELSE None],
                   "efresh_add_to_cart",
                   EFresh_call_tool_add_to_cart(session, file, jar, cart, config.credentials,
                                                lg, has_pid, pid, qty, k1, k2, setc))

EFreshCallToolSearchProducts ==
  /\ target = "efresh_server"
  /\ \E query \in Queries, ean \in Eans :
     \E setc \in IssuedCookies(Given(query) \/ Given(ean)) :
     \E k1 \in Issued(Given(query) \/ Given(ean), {"ok", "http_error", "transport"}) :
     \E found \in IF (Given(query) \/ Given(ean)) /\ k1 = "ok" THEN BOOLEAN ELSE {FALSE} :
       ApplyTool([Op("call_tool") EXCEPT !.query = query, !.ean = ean],
                 "efresh_search_products",
                 EFresh_call_tool_search_products(session, file, jar, cart, query, ean,
                                                  k1, setc, found))

\* a tool name that no branch of call_tool matches
CallToolUnknown ==
  /\ target \in ServerTargets
  /\ ApplyTool(Op("call_tool"), "no_such_tool", call_tool_unknown(session, file, jar, cart))

SkroutzCallToolGetCart ==
  /\ target = "skroutz_server"
  /\ LET auto == ~Authenticated /\ config.credentials
     IN
     \E lc \in IssuedCookies(auto) :
     \E l1 \in Issued(auto, {"ok", "blocked", "transport"}) :
     \E l2 \in Issued(auto /\ l1 = "ok", {"ok", "garbage", "rejected", "transport"}) :
     \E l3 \in Issued(auto /\ l1 = "ok" /\ l2 = "ok", {"ok", "rejected", "transport"}) :
     \E lv \in Issued(auto /\ l1 = "ok" /\ ((l2 = "ok" /\ l3 = "ok") \/ l2 = "garbage"),
                      {"ok", "rejected", "transport"}) :
       LET lg == Cffi_login(session, file, jar, cart, "u1", l1, l2, l3, lv, lc)
           e  == ensure_authenticated(session, file, jar, cart, config.credentials, lg)
           b  == e.after
           run == e.ok /\ AuthManager_is_authenticated(b.session)
       IN
       \E setc \in IssuedCookies(run) :
       \E k1 \in Issued(run, {"ok", "garbage", "transport"}) :
       \E kv \in Issued(run /\ ~(k1 = "ok" /\ NonEmpty(cart)), {"ok", "transport"}) :
       \E km \in Issued(run /\ ~(k1 = "ok" /\ NonEmpty(cart)) /\ kv = "ok",
                        {"ok", "garbage", "transport"}) :
       \E k3 \in Issued(run /\ ~(k1 = "ok" /\ NonEmpty(cart)) /\ kv = "ok"
                          /\ km # "transport" /\ ~(km = "ok" /\ NonEmpty(cart)),
                        ReadKinds \cup {"challenge"}) :
         ApplyTool(Op("call_tool"), "skroutz_get_cart",
                   Skroutz_call_tool_get_cart(session, file, jar, cart, config.credentials,
                                              lg, k1, kv, km, k3, setc))

SklavenitisCallToolAddToCart ==
  /\ target = "sklavenitis_server"
  /\ LET auto == ~Authenticated /\ config.credentials
     IN
     \E lc \in IssuedCookies(auto) :
     \E l1 \in Issued(auto, {"ok", "http_error", "transport"}) :
     \E l2 \in Issued(auto /\ l1 = "ok", {"ok", "garbage", "transport"}) :
     \E l3 \in Issued(auto /\ l1 = "ok" /\ l2 = "ok", {"ok", "rejected", "transport"}) :
     \E lv \in Issued(auto /\ l1 = "ok" /\ l2 = "ok" /\ l3 # "transport",
                      {"ok", "rejected", "transport"}) :
       LET lg == Sklavenitis_login(session, file, jar, cart, "u1", l1, l2, l3, lv, lc)
           e  == ensure_authenticated(session, file, jar, cart, config.credentials, lg)
       IN
       \E has_pid \in BOOLEAN, pid \in Products, qty \in Quantities :
       \E run \in {e.ok /\ has_pid /\ AuthManager_is_authenticated(e.after.session)} :
       \E setc \in IssuedCookies(run) :
       \E k1 \in Issued(run, MutKinds) :
         ApplyTool([CartOp("call_tool", pid, qty) EXCEPT !.pid = IF has_pid THEN pid ELSE None],
                   "sklavenitis_add_to_cart",
                   Sklavenitis_call_tool_add_to_cart(session, file, jar, cart,
                                                     config.credentials, lg, has_pid, pid,
                                                     qty, k1, setc))

\* ------------------------------------------------------------ REST handlers
EFreshRestLogin ==
  /\ target = "efresh_http"
  /\ \E setc \in SetCookieChoices :
     \E k1 \in {"ok", "http_error", "transport"} :
     \E k2 \in Issued(k1 = "ok", MutKinds) :
     \E k3 \in Issued(k1 = "ok" /\ k2 = "ok", {"ok", "rejected", "transport"}) :
       ApplyTool([Op("rest") EXCEPT !.email = "u1"], "POST /auth/login",
                 EFresh_rest_login(EFresh_login(session, file, jar, cart, "u1",
                                                k1, k2, k3, setc)))

EFreshRestSearchProducts ==
  /\ target = "efresh_http"
  /\ \E query \in Queries, ean \in Eans :
     \E setc \in IssuedCookies(Given(query) \/ Given(ean)) :
     \E k1 \in Issued(Given(query) \/ Given(ean), {"ok", "http_error", "transport"}) :
     \E found \in IF (Given(query) \/ Given(ean)) /\ k1 = "ok" THEN BOOLEAN ELSE {FALSE} :
       ApplyTool([Op("rest") EXCEPT !.query = query, !.ean = ean], "POST /products/search",
                 EFresh_rest_search_products(session, file, jar, cart, query, ean,
                                             k1, setc, found))

EFreshRestGetCart ==
  /\ target = "efresh_http"
  /\ \E setc \in IssuedCookies(Authenticated) :
     \E k1 \in Issued(Authenticated, ReadKinds \cup {"rejected"}) :
     \E k2 \in Issued(Authenticated /\ k1 \notin {"ok", "rejected"}, ReadKinds) :
       ApplyTool(Op("rest"), "GET /cart",
                 Rest_authenticated(session, file, jar, cart,
                   EFresh_get_cart(session, file, jar, cart, k1, k2, setc)))

EFreshRestAddToCart ==
  /\ target = "efresh_http"
  /\ \E pid \in Products, qty \in Quantities, setc \in IssuedCookies(Authenticated) :
     \E k1 \in Issued(Authenticated, MutKinds) :
     \E k2 \in Issued(Authenticated /\ Status(k1) # 200, MutKinds) :
       ApplyTool(CartOp("rest", pid, qty), "POST /cart/add",
                 Rest_authenticated(session, file, jar, cart,
                   EFresh_add_to_cart(session, file, jar, cart, pid, qty, k1, k2, setc)))

EFreshRestRemoveFromCart ==
  /\ target = "efresh_http"
  /\ \E pid \in Products, setc \in IssuedCookies(Authenticated) :
     \E k1 \in Issued(Authenticated, MutKinds) :
     \E k2 \in Issued(Authenticated /\ Status(k1) # 200, MutKinds) :
       ApplyTool(CartOp("rest", pid, 0), "POST /cart/remove",
                 Rest_authenticated(session, file, jar, cart,
                   EFresh_remove_from_cart(session, file, jar, cart, pid, k1, k2, setc)))

EFreshRestGetOrders ==
  /\ target = "efresh_http"
  /\ \E n_full \in IF Authenticated THEN {0, 1} ELSE {0} :
     \E last \in Issued(Authenticated, OrderPageKinds) :
     \E k2 \in Issued(Authenticated
                        /\ \/ last \in {"garbage", "transport"}
                           \/ (n_full = 0 /\ last \in {"empty", "http_error"}),
                      ReadKinds) :
     \E found \in IF k2 = "ok" THEN BOOLEAN ELSE {FALSE} :
       LET r == EFresh_get_orders(session, file, jar, cart, n_full, last, k2, found)
       IN  ApplyTool([Op("rest") EXCEPT !.pages = r.pages], "POST /orders",
                     Rest_authenticated(session, file, jar, cart, r.ret))

SkroutzRestGetCart ==
  /\ target = "skroutz_http"
  /\ \E setc \in IssuedCookies(Authenticated) :
     \E k1 \in Issued(Authenticated, {"ok", "garbage", "transport"}) :
     \E kv \in Issued(Authenticated /\ ~(k1 = "ok" /\ NonEmpty(cart)), {"ok", "transport"}) :
     \E km \in Issued(Authenticated /\ ~(k1 = "ok" /\ NonEmpty(cart)) /\ kv = "ok",
                      {"ok", "garbage", "transport"}) :
     \E k3 \in Issued(Authenticated /\ ~(k1 = "ok" /\ NonEmpty(cart)) /\ kv = "ok"
                        /\ km # "transport" /\ ~(km = "ok" /\ NonEmpty(cart)),
                      ReadKinds \cup {"challenge"}) :
       ApplyTool(Op("rest"), "GET /cart",
                 Rest_authenticated(session, file, jar, cart,
                   Cffi_get_cart(session, file, jar, cart, k1, kv, km, k3, setc)))

SkroutzRestAddToCart ==
  /\ target = "skroutz_http"
  /\ \E pid \in Products, qty \in Quantities :
     \E in_url \in IF Authenticated THEN BOOLEAN ELSE {TRUE} :
     \E setc \in IssuedCookies(Authenticated) :
     \E kd \in Issued(Authenticated /\ ~in_url, {"ok", "garbage", "transport"}) :
     \E kc \in Issued(Authenticated /\ kd = "ok", {"ok", "transport"}) :
     \E k1 \in Issued(Authenticated /\ kd = "ok", MutKinds) :
       ApplyTool(CartOp("rest", pid, qty), "POST /cart/add",
                 Skroutz_rest_add_to_cart(session, file, jar, cart, pid, qty,
                                          in_url, kd, kc, k1, setc))

SkroutzRestRemoveFromCart ==
  /\ target = "skroutz_http"
  /\ \E pid \in Products, setc \in IssuedCookies(Authenticated) :
     \E k1 \in Issued(Authenticated, MutKinds) :
       ApplyTool(CartOp("rest", pid, 0), "POST /cart/remove",
                 Rest_authenticated(session, file, jar, cart,
                   Cffi_remove_from_cart(session, file, jar, cart, pid, k1, setc)))

SkroutzRestUpdateCart ==
  /\ target = "skroutz_http"
  /\ \E pid \in Products, qty \in Quantities, setc \in IssuedCookies(Authenticated) :
     \E kc \in Issued(Authenticated, {"ok", "transport"}) :
     \E k1 \in Issued(Authenticated, MutKinds) :
       ApplyTool(CartOp("rest", pid, qty), "POST /cart/update",
                 Rest_authenticated(session, file, jar, cart,
                   Cffi_update_cart_item_quantity(session, file, jar, cart, pid, qty,
                                                  kc, k1, setc)))

SkroutzRestGetOrders ==
  /\ target = "skroutz_http"
  /\ \E nj \in IF Authenticated THEN 0..Len(OrdersJsonEndpoints) ELSE {0} :
     \E k \in Issued(Authenticated /\ nj = 0, ReadKinds \cup {"challenge"}) :
     \E found \in IF Authenticated /\ (nj > 0 \/ k = "ok") THEN BOOLEAN ELSE {FALSE} :
       ApplyTool(Op("rest"), "POST /orders",
                 Rest_authenticated(session, file, jar, cart,
                   Cffi_get_orders(session, file, jar, cart, nj, k, found)))

SkroutzRestGetOrderDetails ==
  /\ target = "skroutz_http"
  /\ \E k \in Issued(Authenticated, ReadKinds \cup {"challenge", "not_found"}) :
       ApplyTool(Op("rest"), "GET /orders/{order_id}",
                 Skroutz_rest_get_order_details(session, file, jar, cart,
                   Cffi_get_order_details(session, file, jar, cart, k)))

Next ==
  \/ SaveSession
  \/ ClearSession
  \/ Construct
  \/ SklSaveSession
  \/ SklClearSession
  \/ SklConstruct
  \/ TamperFile
  \/ EFreshGetOrders
  \/ EFreshLogin
  \/ EFreshLogout
  \/ EFreshSearchProducts
  \/ EFreshAddToCart
  \/ EFreshRemoveFromCart
  \/ EFreshUpdateCartItemQuantity
  \/ EFreshGetCart
  \/ CffiGetOrders
  \/ CffiGetOrderDetails
  \/ CffiLogin
  \/ CffiLogout
  \/ CffiSearchProducts
  \/ CffiAddToCart
  \/ SseCallToolAddToCart
  \/ CffiRemoveFromCart
  \/ CffiUpdateCartItemQuantity
  \/ CffiGetCart
  \/ SklavenitisLogin
  \/ SklavenitisLogout
  \/ SklavenitisSearchProducts
  \/ SklavenitisAddToCart
  \/ EFreshCallToolAddToCart
  \/ EFreshCallToolSearchProducts
  \/ CallToolUnknown
  \/ SkroutzCallToolGetCart
  \/ SklavenitisCallToolAddToCart
  \/ EFreshRestLogin
  \/ EFreshRestSearchProducts
  \/ EFreshRestGetCart
  \/ EFreshRestAddToCart
  \/ EFreshRestRemoveFromCart
  \/ EFreshRestGetOrders
  \/ SkroutzRestGetCart
  \/ SkroutzRestAddToCart
  \/ SkroutzRestRemoveFromCart
  \/ SkroutzRestUpdateCart
  \/ SkroutzRestGetOrders
  \/ SkroutzRestGetOrderDetails

Spec == Init /\ [][Next]_vars

\* ================================================================== claims
CartMutations == {"add_to_cart", "remove_from_cart", "update_cart_item_quantity"}

\* the server tools and REST routes that call a cart mutation
CartMutationTools ==
  {"skroutz_add_to_cart", "efresh_add_to_cart", "sklavenitis_add_to_cart",
   "POST /cart/add", "POST /cart/remove", "POST /cart/update"}

C3_LoginTrueMeansAuthenticatedAndPersisted ==
  (op.name = "login" /\ op.result = "true")
    => /\ Authenticated
       /\ file.exists
       /\ file.data.user_email = op.email
       /\ \A n \in DOMAIN op.cookies :
            n \in DOMAIN file.data.cookies /\ file.data.cookies[n] = op.cookies[n]

\* C4: after save_session(c, e) with a cookie map c that is not empty, a new
\* AuthManager constructed on the same session file has get_cookies() = c
\* and is_authenticated() true.
C4_SaveReloadRoundTrip ==
  (op.name = "construct" /\ op.prev.name = "save_session" /\ DOMAIN op.cookies # {})
    => (session.cookies = op.cookies /\ Authenticated)

SearchAndCartOps ==
  {"search_products", "add_to_cart", "remove_from_cart", "update_cart_item_quantity",
   "get_cart"}

\* C6: no search or cart operation lets a transport failure escape: the
\* failure of any request, a fallback included, becomes false, an empty
\* result or null.
C6_TransportFailuresAreAbsorbed ==
  op.name \in SearchAndCartOps => op.result # "raise_transport"

\* C7: search_products with neither a query nor an EAN (each absent or
\* empty) raises the input-precondition error before any request, in every
\* target.
C7_SearchWithoutParametersRaises ==
  (op.name = "search_products" /\ ~Given(op.query) /\ ~Given(op.ean))
    => (op.result = "raise_input" /\ op.reqs = <<>>)

\* the requests that fetch the cart
CartFetches == {"GET /api/cart", "GET /el/cart", "GET /cart.json", "GET /cart/mini_cart"}

\* C8: add_to_cart returns true only after it has re-fetched the cart and
\* found the product in it.
C8_AddToCartTrueOnlyWhenVerified ==
  (op.name = "add_to_cart" /\ op.result = "true")
    => /\ op.reqs # <<>>
       /\ op.reqs[Len(op.reqs)] \in CartFetches
       /\ cart[op.pid] > 0

\* C9: a get_cart() right after add_to_cart(p, q) returned true, when it
\* returns the cart the retailer holds, shows p with at least the quantity q
\* that was passed.
C9_GetCartAfterAddShowsQuantity ==
  (/\ op.name = "get_cart" /\ op.result = "cart" /\ op.items = cart
   /\ op.prev.name = "add_to_cart" /\ op.prev.result = "true")
    => op.items[op.prev.pid] >= op.prev.qty

\* the requests that add a product to the e-fresh cart
EFreshAddRequests == {"POST /api/cart/add", "POST /el/cart/add"}

\* C10: update_cart_item_quantity(id, q) that reports success on an item
\* that was in the cart leaves the item at exactly q, and in E-Fresh it has
\* issued exactly one add request.
C10_UpdateSetsAbsoluteQuantity ==
  (op.name = "update_cart_item_quantity" /\ op.before > 0 /\ op.result = "true")
    => /\ cart[op.pid] = op.qty
       /\ (target = "efresh"
             => Cardinality({i \in 1..Len(op.reqs) : op.reqs[i] \in EFreshAddRequests}) = 1)

\* C11: get_orders requests at most max_pages pages of the order listing,
\* numbered 1, 2, ... in order, whatever the retailer answers.
C11_GetOrdersPaginationIsBounded ==
  op.name = "get_orders"
    => /\ Len(op.pages) <= max_pages
       /\ \A i \in 1..Len(op.pages) : op.pages[i] = i

C11_Witness ==
  op.name = "get_orders" /\ op.result = "orders" /\ Len(op.pages) = max_pages

\* C12: a cart or orders read whose deciding answer from the retailer is an
\* anti-bot block raises the blocked error; it does not return an empty cart,
\* an empty list or null.
C12_BlockedIsRaised ==
  (op.name \in {"get_cart", "get_orders", "get_order_details"} /\ op.blocked)
    => op.result = "raise_blocked"

\* the tools of the stdio servers that stand for an authenticated operation
AuthenticatedTools == {"efresh_add_to_cart", "skroutz_get_cart", "sklavenitis_add_to_cart"}

\* the first request of a login, per server
LoginPage == {"GET /el/account/login", "GET /login", "GET /"}

LoginPageRequests == { i \in 1..Len(op.reqs) : op.reqs[i] \in LoginPage }

TextResults ==
  {"text_not_authenticated", "text_done", "text_failed", "text_error",
   "text_products", "text_no_products", "text_unknown_tool",
   "text_cart", "text_cart_empty", "text_error_fetching", "text_cloudflare"}

\* C16 as stated: call_tool always returns text content; a caught exception
\* gives the 'Error: ...' text and an unknown tool name the 'Unknown tool'
\* text.
C16_ExceptionBecomesErrorText ==
  op.name = "call_tool"
    => /\ op.result \in TextResults
       /\ op.caught => op.result = "text_error"
       /\ op.tool = "no_such_tool" => op.result = "text_unknown_tool"

\* C16 (amended): call_tool always returns text content and no exception
\* reaches the caller; a caught exception gives the 'Error: ...' text, except
\* in the skroutz get_cart tool, whose own handler words an exception of
\* get_cart() as 'Error fetching cart: ...' or, for a blocked request, as a
\* Cloudflare notice; an unknown tool name gives the 'Unknown tool' text.
C16_CallToolAlwaysReturnsText ==
  op.name = "call_tool"
    => /\ op.result \in TextResults
       /\ op.caught
            => IF op.tool = "skroutz_get_cart"
                 THEN op.result = (IF op.inner.result = "raise_blocked"
                                     THEN "text_cloudflare" ELSE "text_error_fetching")
                 ELSE op.result = "text_error"
       /\ op.tool = "no_such_tool" => op.result = "text_unknown_tool"

C16_Witness ==
  /\ op.name = "call_tool" /\ op.tool = "efresh_add_to_cart"
  /\ op.inner.called /\ op.inner.result = "raise_transport"
  /\ op.caught /\ op.result = "text_error"

\* C14: the REST endpoint POST /products/search called with neither query
\* nor ean answers with HTTP status 400.
C14_RestSearchWithoutParametersIs400 ==
  (op.name = "rest" /\ op.tool = "POST /products/search"
     /\ ~Given(op.query) /\ ~Given(op.ean))
    => op.result = "http_400"

\* the REST routes of the authenticated operations
AuthenticatedRoutes ==
  {"GET /cart", "POST /cart/add", "POST /cart/remove", "POST /cart/update",
   "POST /orders", "GET /orders/{order_id}"}

\* C15: a REST handler of an authenticated operation called while the
\* session is not authenticated answers 401, calls no client method and
\* sends no request to the retailer.
C15_RestUnauthenticatedIs401 ==
  (op.name = "rest" /\ op.tool \in AuthenticatedRoutes /\ ~op.was_auth)
    => /\ op.result = "http_401"
       /\ ~op.inner.called
       /\ op.reqs = <<>>

C15_Witness ==
  /\ op.name = "rest" /\ op.tool = "POST /cart/add" /\ ~op.was_auth
  /\ op.result = "http_401" /\ op.reqs = <<>>

\* a session file that is missing, unreadable or not a session document
BadFile(f) == ~f.exists \/ ~Readable(f) \/ f.kind # "object"

\* nothing but the session file supplies cookies at construction
OnlyTheFile ==
  IF target = "skroutz_auth"
    THEN DOMAIN EnvCookies(config.env) = {}
    ELSE ~legacy.exists /\ config.zipcode = None

\* C17: constructing the AuthManager never raises, and with a missing,
\* unreadable or invalid session file the session is empty and
\* unauthenticated.
C17_LoadNeverRaises ==
  op.name = "construct"
    => /\ op.result = "none"
       /\ (BadFile(op.found) /\ OnlyTheFile)
            => (DOMAIN session.cookies = {} /\ ~session.is_authenticated)

\* C18: save_session never raises: when a step of the write fails it
\* returns normally, with the in-memory session updated.
C18_SaveNeverRaises ==
  (op.name = "save_session" /\ op.io # "ok")
    => (op.result = "none" /\ session.cookies = op.cookies)

\* C19: in every reachable state the is_authenticated flag of the session
\* record implies that its cookies are not empty.
C19_AuthenticatedFlagImpliesCookies ==
  session.is_authenticated => DOMAIN session.cookies # {}

\* an operation that persists the session has returned: save_session, a
\* login that returned true, a construction that loaded cookies from the
\* environment
PersistingOpReturned ==
  \/ op.name = "save_session" /\ op.result = "none"
  \/ op.name = "login" /\ op.result = "true"
  \/ /\ op.name = "construct" /\ op.result = "none"
     /\ target = "skroutz_auth" /\ DOMAIN EnvCookies(config.env) # {}

CartJsonRequest == {"GET /api/cart", "GET /cart.json"}

\* C21: an authenticated get_cart asks the JSON cart endpoint first; a JSON
\* attempt that failed or gave an empty cart is followed by the rendered
\* cart page, so an empty Cart is returned only after the page was asked for
\* as well, and a non-empty cart comes from the first strategy that gave one.
C21_GetCartFallsBackOnFailureOrEmpty ==
  (op.name = "get_cart" /\ op.was_auth)
    => /\ op.reqs # <<>> /\ op.reqs[1] \in CartJsonRequest
       /\ (op.result = "cart" /\ ~NonEmpty(op.items)) => Len(op.reqs) > 1
       /\ (op.result = "cart" /\ NonEmpty(op.items)) => op.items = cart

\* the structured search endpoint of the e-fresh and sklavenitis clients
SearchStructuredRequest == {"GET /api/list", "GET /ajax/Search.Index"}

\* C22: search_products asks the structured JSON/AJAX endpoint first and,
\* when that endpoint is unavailable (status other than 200 or a transport
\* error), goes on to the HTML page for the embedded JSON and the element
\* scraping, so the empty list is returned only after a further request.
C22_SearchFallsBackWhenEndpointUnavailable ==
  (op.name = "search_products" /\ target \in {"efresh", "sklavenitis"} /\ op.kinds # <<>>)
    => /\ op.reqs[1] \in SearchStructuredRequest
       /\ op.kinds[1] # "ok" => Len(op.reqs) > 1

\* ============================================ the list parsers on their own
\* A parser is applied to one response body. The body of the e-fresh list
\* endpoint is a list of entries; the sklavenitis search page is a list of
\* product containers, each with an analytics JSON text that lists items.
EntryLists ==
  UNION { { [i \in 1..n |-> Entry(i, b[i])] : b \in [1..n -> BOOLEAN] } : n \in 0..MaxEntries }

Containers ==
  { [json_ok |-> FALSE, items |-> <<>>] } \cup { [json_ok |-> TRUE, items |-> e] : e \in EntryLists }

ContainerLists == UNION { [1..n -> Containers] : n \in 0..MaxContainers }

ParserConfig(t) == [target |-> t, env |-> NoEnv, zipcode |-> None, credentials |-> FALSE]

InitParse ==
  /\ config \in {ParserConfig("efresh_parser"), ParserConfig("sklavenitis_parser")}
  /\ session = EmptySession
  /\ file = NoFile
  /\ legacy = NoLegacy
  /\ jar = EmptyCookies
  /\ cart = EmptyCart
  /\ pw = NoPw
  /\ op \in { [NoOp EXCEPT !.name = "response", !.body = b] :
               b \in IF target = "efresh_parser" THEN EntryLists ELSE ContainerLists }

EFreshParseProductsFromApi ==
  /\ target = "efresh_parser"
  /\ op.name = "response"
  /\ op' = [op EXCEPT !.name = "parse", !.result = "list",
                       !.parsed = EFresh__parse_products_from_api(op.body)]
  /\ UNCHANGED <<pw, config, session, file, legacy, jar, cart>>

SklavenitisParseProductsFromAjaxSearch ==
  /\ target = "sklavenitis_parser"
  /\ op.name = "response"
  /\ op' = [op EXCEPT !.name = "parse", !.result = "list",
                       !.parsed = Sklavenitis__parse_products_from_ajax_search(op.body)]
  /\ UNCHANGED <<pw, config, session, file, legacy, jar, cart>>

NextParse ==
  \/ EFreshParseProductsFromApi
  \/ SklavenitisParseProductsFromAjaxSearch

SpecParse == InitParse /\ [][NextParse]_vars

\* the entries of a response body in their order: the entries of the list,
\* or the items of every container whose analytics JSON loads
RECURSIVE EntriesOf(_)
EntriesOf(body) ==
  IF body = <<>> THEN <<>>
  ELSE (IF "json_ok" \in DOMAIN Head(body)
          THEN (IF Head(body).json_ok THEN Head(body).items ELSE <<>>)
          ELSE <<Head(body)>>)
         \o EntriesOf(Tail(body))

WellFormed(e) == e.ok

\* C23: a parser returns exactly the well-formed entries of the response, in
\* their original order: a malformed entry is skipped and never takes a
\* well-formed entry with it.
C23_MalformedEntriesAreSkippedOneByOne ==
  op.name = "parse" => op.parsed = SelectSeq(EntriesOf(op.body), WellFormed)

\* the targets in which a Site Client is driven directly, one call at a time
ClientTargets == {"efresh", "skroutz", "sklavenitis"}

OrderStatuses == {"pending", "delivered"}

OrderLists ==
  UNION { { [i \in 1..n |-> Order(i, st[i])] : st \in [1..n -> OrderStatuses] } :
          n \in 0..MaxOrders }

InitOrders ==
  /\ config = [target |-> "efresh", env |-> NoEnv, zipcode |-> None, credentials |-> FALSE]
  /\ legacy = NoLegacy
  /\ \E setc \in SetCookieChoices :
       LET r == EFresh_login(EmptySession, NoFile, EmptyCookies, EmptyCart, "u1",
                             "ok", "ok", "ok", setc)
       IN  /\ session = r.session
           /\ file = r.file
           /\ jar = r.jar
  /\ cart = EmptyCart
  /\ pw = NoPw
  /\ op = NoOp

EFreshGetOrdersItems ==
  /\ target = "efresh"
  /\ \E include_history \in BOOLEAN, include_items \in BOOLEAN :
     \E n_full \in IF Authenticated THEN {0, 1} ELSE {0} :
     \E last \in Issued(Authenticated, OrderPageKinds) :
       LET loop   == EFresh_get_orders_pages(1, n_full, last, <<>>, FALSE)
           by_api == Authenticated /\ ~loop.exc /\ loop.got
       IN  \E listed \in IF by_api THEN OrderLists \ {<<>>} ELSE {<<>>} :
           \E details \in [1..Len(listed) -> IF include_items THEN DetailKinds ELSE {"ok"}] :
           \E k2 \in Issued(Authenticated /\ ~by_api, ReadKinds) :
           \E html \in IF Authenticated /\ ~by_api /\ k2 = "ok" THEN OrderLists ELSE {<<>>} :
             LET r == EFresh_get_orders_items(session, file, jar, cart, include_history,
                                              include_items, n_full, last, listed, details,
                                              k2, html)
             IN  Apply([Op("get_orders") EXCEPT
                          !.include_history = include_history,
                          !.include_items = include_items,
                          !.orders = r.orders, !.fetched = r.fetched],
                       r.ret)

EFreshGetOrderDetails ==
  /\ target = "efresh"
  /\ \E k \in Issued(Authenticated, DetailKinds) :
       Apply(Op("get_order_details"), EFresh_get_order_details(session, file, jar, cart, k))

NextOrders ==
  \/ EFreshGetOrdersItems
  \/ EFreshGetOrderDetails

SpecOrders == InitOrders /\ [][NextOrders]_vars

\* C25: when include_items is requested, the orders get_orders returns have
\* each had exactly one detail fetch, in the order of the list, and the list
\* is the listing after the include_history filter whatever the detail
\* fetches answered.
C25_OneDetailFetchPerReturnedOrder ==
  (op.name = "get_orders" /\ op.include_items /\ op.result \in {"orders", "empty_list"})
    => /\ Len(op.fetched) = Len(op.orders)
       /\ \A i \in 1..Len(op.orders) : op.fetched[i] = op.orders[i].id
       /\ ~op.include_history => \A i \in 1..Len(op.orders) : ActiveOrder(op.orders[i])

\* C26: an AuthManager constructed while none of the cookie environment
\* variables is set has the session its session file held (the empty,
\* unauthenticated one when there is no file) and has not written the file;
\* constructed right after clear_session it is unauthenticated.
C26_ConstructWithoutEnvKeepsLoadedSession ==
  (/\ target = "skroutz_auth" /\ config.env = NoEnv
   /\ op.name \in {"init", "construct"} /\ op.result = "none")
    => /\ session = AuthManager__load_session(op.found)
       /\ file = op.found
       /\ op.prev.name = "clear_session" => ~Authenticated

PwCartMutations == {"add_to_cart", "remove_from_cart", "update_cart_item_quantity"}

PwOperations == PwCartMutations \cup {"get_cart", "search_products"}

\* _start_browser: the context is created, and loaded with the AuthManager's
\* cookies, only when no browser has been started yet
Pw__start_browser(p, s) ==
  IF p.started THEN p
  ELSE [p EXCEPT !.started = TRUE, !.context = AuthManager_get_cookies(s)]

\* _save_cookies: the context's cookies become the AuthManager's session
Pw__save_cookies(p, s, f) ==
  IF p.started /\ DOMAIN p.context # {}
    THEN AuthManager_save_session(s, f, p.context, s.user_email)
    ELSE [session |-> s, file |-> f]

\* an operation up to its first await on the browser (page.goto):
\* kb is what launching the browser does
Pw_begin(p, s, name, pid, qty, kb) ==
  IF name # "search_products" /\ ~AuthManager_is_authenticated(s)
    THEN [pw |-> [p EXCEPT !.overlapped = FALSE], result |-> "raise_auth"]
  ELSE IF ~p.started /\ kb = "launch_error"
    THEN [pw |-> [p EXCEPT !.overlapped = FALSE], result |-> "false"]
  ELSE LET q == Pw__start_browser(p, s)
       IN  [pw |-> [q EXCEPT !.overlapped = FALSE, !.task = [NoTask EXCEPT !.name = name, !.pid = pid,
                                                     !.qty = qty, !.sent = q.context,
                                                     !.cookies = AuthManager_get_cookies(s)]],
            result |-> "awaiting"]

\* the retailer's cart after the click of a cart operation
Pw_remote(crt, name, pid, qty) ==
  CASE name = "add_to_cart"               -> RemoteAdd(crt, "ok", pid, qty, FALSE)
    [] name = "remove_from_cart"          -> RemoteRemove(crt, "ok", pid)
    [] name = "update_cart_item_quantity" -> RemoteSet(crt, "ok", pid, qty)
    [] OTHER                              -> crt

\* the rest of the operation, once the browser has answered: k is what the page
\* showed, setc the cookies the site set in the context meanwhile
Pw_end(p, s, f, crt, k, setc) ==
  LET t  == p.task
      c2 == IF k = "error" THEN p.context ELSE Merge(setc, p.context)
      p2 == [p EXCEPT !.context = c2]
      a  == Pw__save_cookies(p2, s, f)
      ok == k = "ok"
      res == IF t.name \in PwCartMutations THEN (IF ok THEN "true" ELSE "false")
             ELSE IF ok THEN "list" ELSE "empty"
      fin(q) == [q EXCEPT !.task = NoTask, !.overlapped = t.logout]
  IN  IF t.name \in PwCartMutations /\ ok
        THEN [pw |-> fin(p2), session |-> a.session, file |-> a.file,
              cart |-> Pw_remote(crt, t.name, t.pid, t.qty), result |-> res]
        ELSE [pw |-> fin(p2), session |-> s, file |-> f, cart |-> crt, result |-> res]

\* ------------------------------------------------- SkroutzClientHybrid
HybridConfig(e) == [target |-> "skroutz_hybrid", env |-> e, zipcode |-> None,
                    credentials |-> FALSE]

\* the cookies skroutz.gr issues at a login: two sessions can be told apart
HybridSetCookieChoices == { [n \in {"sid"} |-> "b"], [n \in {"sid"} |-> "c"] }

\* SkroutzClientHybrid.logout: the curl_cffi client logs out, the session is
\* cleared again through the Playwright client's AuthManager (the same object);
\* the browser context is left as it is
Hybrid_logout(p, s, f, j, crt) ==
  LET r == Cffi_logout(s, f, j, crt, "ok", EmptyCookies)
      a == AuthManager_clear_session(r.session, r.file)
  IN  [pw |-> p, session |-> a.session, file |-> a.file, jar |-> r.jar,
       cart |-> r.cart, result |-> r.result, reqs |-> r.reqs]

InitHybrid ==
  /\ config \in { HybridConfig(e) : e \in ClientEnvChoices }
  /\ legacy = NoLegacy
  /\ LET a == AuthManager_init(NoFile, config.env)
     IN  /\ session = a.session
         /\ file = a.file
         /\ jar = Cffi__update_cookies(a.session, EmptyCookies)
  /\ cart = EmptyCart
  /\ op = NoOp
  /\ pw = NoPw

HybridLogin ==
  /\ target = "skroutz_hybrid"
  /\ \E email \in Emails, setc \in HybridSetCookieChoices :
     \E k1 \in {"ok", "blocked"} :
       LET r == Cffi_login(session, file, jar, cart, email, k1, "ok", "ok", "ok", setc)
       IN  /\ session' = r.session
           /\ file' = r.file
           /\ jar' = r.jar
           /\ cart' = r.cart
           /\ op' = [Op("login") EXCEPT !.result = r.result]
           /\ pw' = [pw EXCEPT !.overlapped = FALSE,
                                !.task.logout = IF r.result = "true" THEN FALSE ELSE @]
  /\ UNCHANGED <<config, legacy>>

HybridLogout ==
  /\ target = "skroutz_hybrid"
  /\ LET r == Hybrid_logout(pw, session, file, jar, cart)
     IN  /\ session' = r.session
         /\ file' = r.file
         /\ jar' = r.jar
         /\ cart' = r.cart
         /\ op' = [Op("logout") EXCEPT !.result = r.result]
         /\ pw' = [r.pw EXCEPT !.overlapped = FALSE,
                               !.task.logout = (pw.task.name # "none")]
  /\ UNCHANGED <<config, legacy>>

PlaywrightBegin ==
  /\ target = "skroutz_hybrid"
  /\ pw.task = NoTask
  /\ \E name \in PwOperations, pid \in Products :
     \E qty \in (IF name = "update_cart_item_quantity" THEN Quantities ELSE {1}) :
     \E kb \in {"ok", "launch_error"} :
       LET r == Pw_begin(pw, session, name, pid, qty, kb)
       IN  /\ pw' = r.pw
           /\ op' = [Op(name) EXCEPT !.result = r.result]
  /\ UNCHANGED <<config, session, file, legacy, jar, cart>>

PlaywrightEnd ==
  /\ target = "skroutz_hybrid"
  /\ pw.task # NoTask
  /\ \E k \in {"ok", "no_element", "cloudflare", "error"} :
     \E setc \in (IF k = "ok" THEN { EmptyCookies, [n \in {"cf"} |-> "p"] }
                               ELSE { EmptyCookies }) :
       LET r == Pw_end(pw, session, file, cart, k, setc)
       IN  /\ \A x \in Products : r.cart[x] <= MaxCart
           /\ pw' = r.pw
           /\ session' = r.session
           /\ file' = r.file
           /\ cart' = r.cart
           /\ op' = [Op(pw.task.name) EXCEPT !.result = r.result]
  /\ UNCHANGED <<config, legacy, jar>>

NextHybrid == HybridLogin \/ HybridLogout \/ PlaywrightBegin \/ PlaywrightEnd

SpecHybrid == InitHybrid /\ [][NextHybrid]_vars

\* the cookies that only a login or the environment puts into a session
\* (the pages visited by the browser set other cookies)
SessionCookieNames == {"sid", "logged_in"}

\* C28: a Playwright-backed operation of the hybrid client sends as session
\* cookies the cookies of the AuthManager's current session, never those of a
\* session that was logged out, also when the browser was started before the
\* logout
C28_PlaywrightSendsCurrentSessionCookies ==
  pw.task.name # "none"
    => \A n \in DOMAIN pw.task.sent \cap SessionCookieNames :
         n \in DOMAIN pw.task.cookies /\ pw.task.cookies[n] = pw.task.sent[n]

\* C29: when logout() completed while a Playwright cart operation was awaiting
\* the browser and no login followed, then after the operation has finished the
\* session is unauthenticated and the session file does not exist
C29_InFlightWriteBackDoesNotRecreateSession ==
  (/\ pw.task = NoTask
   /\ op.name \in PwCartMutations
   /\ op.result \in {"true", "false"}
   /\ pw.overlapped)
    => (~Authenticated /\ ~file.exists)

\* ------------------------------------------------ _wait_for_cloudflare
\* the default of the timeout parameter, in milliseconds
DefaultTimeout == 30000

Timeouts == {0, 1000, 2500, DefaultTimeout}

\* the first look at the page: k = "error" when page.content() raises, ind when
\* the content holds a challenge indicator, url when the URL holds
\* 'cdn-cgi/challenge'
Pw__wait_for_cloudflare_start(timeout, k, ind, url) ==
  LET w == [NoWait EXCEPT !.timeout = timeout, !.indicators = ind, !.challenge_url = url]
  IN  IF k = "error" THEN [w EXCEPT !.pc = "returned", !.result = "false"]
      ELSE IF ~ind THEN [w EXCEPT !.pc = "returned", !.result = "true"]
      ELSE [w EXCEPT !.pc = "polling"]

\* one turn of the polling loop, entered while waited < timeout / 1000
Pw__wait_for_cloudflare_poll(w, k, ind, url) ==
  LET w2 == [w EXCEPT !.waited = @ + 1]
      w3 == [w2 EXCEPT !.indicators = ind, !.challenge_url = url]
  IN  IF k = "error" THEN [w2 EXCEPT !.pc = "returned", !.result = "false"]
      ELSE IF ~ind THEN [w3 EXCEPT !.pc = "returned", !.result = "true"]
      ELSE IF ~url THEN [w3 EXCEPT !.pc = "returned", !.result = "true"]
      ELSE w3

\* the loop test fails: the function falls out of the loop
Pw__wait_for_cloudflare_exhausted(w) == [w EXCEPT !.pc = "returned", !.result = "false"]

PlaywrightConfig == [target |-> "skroutz_playwright", env |-> NoEnv, zipcode |-> None,
                     credentials |-> FALSE]

InitCloudflare ==
  /\ config = PlaywrightConfig
  /\ legacy = NoLegacy
  /\ LET a == AuthManager_init(NoFile, config.env)
     IN  /\ session = a.session
         /\ file = a.file
         /\ pw = Pw__start_browser(NoPw, a.session)
  /\ jar = EmptyCookies
  /\ cart = EmptyCart
  /\ op = NoOp

CloudflareStart ==
  /\ target = "skroutz_playwright"
  /\ pw.wait.pc = "idle"
  /\ \E timeout \in Timeouts, k \in {"page", "error"}, ind \in BOOLEAN, url \in BOOLEAN :
       pw' = [pw EXCEPT !.wait = Pw__wait_for_cloudflare_start(timeout, k, ind, url)]
  /\ UNCHANGED <<config, session, file, legacy, jar, cart, op>>

CloudflarePoll ==
  /\ target = "skroutz_playwright"
  /\ pw.wait.pc = "polling"
  /\ pw.wait.waited * 1000 < pw.wait.timeout
  /\ \E k \in {"page", "error"}, ind \in BOOLEAN, url \in BOOLEAN :
       pw' = [pw EXCEPT !.wait = Pw__wait_for_cloudflare_poll(pw.wait, k, ind, url)]
  /\ UNCHANGED <<config, session, file, legacy, jar, cart, op>>

CloudflareExhausted ==
  /\ target = "skroutz_playwright"
  /\ pw.wait.pc = "polling"
  /\ ~(pw.wait.waited * 1000 < pw.wait.timeout)
  /\ pw' = [pw EXCEPT !.wait = Pw__wait_for_cloudflare_exhausted(pw.wait)]
  /\ UNCHANGED <<config, session, file, legacy, jar, cart, op>>

NextCloudflare == CloudflareStart \/ CloudflarePoll \/ CloudflareExhausted

SpecCloudflare == InitCloudflare /\ [][NextCloudflare]_vars

\* C30: _wait_for_cloudflare returns true only when no challenge indicator is
\* in the page at the return; it returns false when the challenge is still there
\* after the polling budget is used up; it never polls more often than
\* timeout / 1 s rounded up; and it returns a boolean, never an exception
C30_CloudflareGateReturnsTrueOnlyWhenPassed ==
  pw.wait.pc = "returned"
    => /\ pw.wait.result \in {"true", "false"}
       /\ pw.wait.result = "true" => ~pw.wait.indicators
       /\ (pw.wait.indicators /\ ~(pw.wait.waited * 1000 < pw.wait.timeout))
            => pw.wait.result = "false"
       /\ pw.wait.waited = 0 \/ (pw.wait.waited - 1) * 1000 < pw.wait.timeout
====
